---------------------------- MODULE Spec2Model ----------------------------
(***************************************************************************)
(* A model of the ORMR staking contracts (OpShin / PlutusV3):              *)
(*   - platform_authority_nft_policy.py  (Platform Authority Capability)   *)
(*   - pool_nft_policy_v3.py             (Pool Identity Capability)        *)
(*   - pool_validator_v3.py              (Pool State Machine)              *)
(*   - staking_shared_v3.py              (User Position State Machine)     *)
(*                                                                         *)
(* A script is a function of one proposed transaction: it returns "OK" or  *)
(* the message of the first assertion that fails.  The ledger applies a    *)
(* transaction only when every script it triggers returns "OK" and the     *)
(* identity tokens it moves are preserved.                                 *)
(*                                                                         *)
(* Byte strings are modelled as pairs <<length, identity>>; a value is a   *)
(* function from the assets <<policy, name>> it holds to their quantity;   *)
(* an optional datum is the empty sequence (NoOutputDatum) or the          *)
(* one-element sequence holding the record (SomeOutputDatum).              *)
(***************************************************************************)
EXTENDS Integers, Sequences, FiniteSets, TLC

VARIABLES
    ledger,      \* the unspent outputs: a set of [out_ref, resolved]
    verdict,     \* the last submission and its outcome: [msg, tx, scripts]
    phase,       \* "idle" | "accepted" | "rejected"
    supply,      \* per asset, the units ever minted (burns not subtracted)
    pause_log,   \* the pool identities on which PausePool(1) was accepted
    created,     \* the pool records as the Pool Identity mint created them
    ntx,         \* the number of transactions applied so far
    clock,       \* the ledger's time (POSIX ms) at the last applied transaction
    consumed     \* the outputs of the ledger that applied transactions have spent

vars == <<ledger, verdict, phase, supply, pause_log, created, ntx, clock, consumed>>

-----------------------------------------------------------------------------
(* Bounds of the model *)

\* the transactions one behaviour applies to the ledger
MaxTx == 2
\* the largest amount a redeemer carries
MaxAmount == 3

-----------------------------------------------------------------------------
(* Program constants *)

HashLen == 28
NameLen == 32
BpsDenominator == 10000
MaxYieldRate == 10000
MsPerDay == 86400000
MaxWindowMs == 600000

-----------------------------------------------------------------------------
(* Byte strings *)

Bytes(n, i) == <<n, i>>
len(b) == b[1]

\* sha2_256: 32 bytes, one result per argument (collision resistance)
sha2_256(b) == <<32, 1000 + 100 * b[1] + b[2]>>

\* script hashes
PoolValidatorHash == Bytes(28, 1)     \* the compiled pool_validator_v3
StakingValidatorHash == Bytes(28, 6)  \* the compiled staking_shared_v3
ForeignScriptHash == Bytes(28, 2)     \* a script that is not of this repository
StakingHashA == Bytes(28, 3)
StakingHashB == Bytes(28, 4)
BurnScriptHash == Bytes(28, 5)
\* key hashes
OwnerPkh == Bytes(28, 10)
UserPkh == Bytes(28, 11)
FeePkh == Bytes(28, 12)
CreatorPkh == Bytes(28, 13)
AdminPkh == Bytes(28, 14)
\* minting policies
PoolNftPolicyId == Bytes(28, 20)      \* the compiled pool_nft_policy_v3
AuthorityPolicyId == Bytes(28, 21)    \* the compiled platform_authority_nft_policy
StakeTokenPolicy == Bytes(28, 22)
RewardTokenPolicy == Bytes(28, 23)
ForeignPolicyId == Bytes(28, 24)      \* a policy that is not of this repository
PositionPolicyId == Bytes(28, 25)
StakeTokenName == Bytes(4, 30)
RewardTokenName == Bytes(4, 31)

\* another byte string of the same length
Other(b) == <<b[1], b[2] + 500>>
\* the same identity one byte short
Short(b) == <<b[1] - 1, b[2]>>

-----------------------------------------------------------------------------
(* Ledger types *)

ScriptCredential(h) == [tag |-> "ScriptCredential", credential_hash |-> h]
PubKeyCredential(h) == [tag |-> "PubKeyCredential", credential_hash |-> h]
Address(cred, stk) == [payment_credential |-> cred, staking_credential |-> stk]
ScriptAddress(h) == Address(ScriptCredential(h), 0)
KeyAddress(h) == Address(PubKeyCredential(h), 0)

NoOutputDatum == << >>
SomeOutputDatum(d) == <<d>>
IsSomeOutputDatum(d) == d # << >>

TxOut(a, v, d) == [address |-> a, value |-> v, datum |-> d]
TxOutRef(i, n) == [id |-> i, idx |-> n]
TxInInfo(r, o) == [out_ref |-> r, resolved |-> o]

\* the value holding the triples <<policy, name, quantity>> of s
Val(s) ==
    [a \in {<<t[1], t[2]>> : t \in s} |->
        (CHOOSE t \in s : <<t[1], t[2]>> = a)[3]]
EmptyValue == Val({})

Spending(ref) == [tag |-> "Spending", tx_out_ref |-> ref, policy_id |-> <<0, 0>>]
Minting(p) == [tag |-> "Minting", tx_out_ref |-> TxOutRef(<<0, 0>>, 0), policy_id |-> p]
ScriptContext(tx, purpose, redeemer) ==
    [transaction |-> tx, purpose |-> purpose, redeemer |-> redeemer]

\* redeemers of pool_validator_v3
Stake(amount) == [tag |-> "Stake", amount |-> amount]
Unstake(amount) == [tag |-> "Unstake", amount |-> amount]
Claim == [tag |-> "Claim"]
UpdatePool(rate) == [tag |-> "UpdatePool", new_yield_rate |-> rate]
ClosePool == [tag |-> "ClosePool"]
FundTreasury(amount) == [tag |-> "FundTreasury", amount |-> amount]
WithdrawTreasury(amount) == [tag |-> "WithdrawTreasury", amount |-> amount]
PausePool(pause) == [tag |-> "PausePool", pause |-> pause]
\* redeemers of pool_nft_policy_v3
Mint(i, h, p, n) ==
    [tag |-> "Mint", output_index |-> i, pool_validator_hash |-> h,
     platform_authority_nft_policy |-> p, platform_authority_nft_name |-> n]
Burn == [tag |-> "Burn"]
\* redeemers of platform_authority_nft_policy
MintAuthority(i) == [tag |-> "MintAuthority", output_index |-> i]
BurnAuthority == [tag |-> "BurnAuthority"]

-----------------------------------------------------------------------------
(* Datum types *)

PoolFields ==
    {"pool_nft_policy", "pool_nft_name", "stake_token_policy", "stake_token_name",
     "reward_token_policy", "reward_token_name", "yield_rate", "min_stake", "owner",
     "total_staked", "staking_validator_hash", "position_nft_policy_hash",
     "platform_fee_pkh", "deposit_fee_bps", "burn_address_hash", "paused"}

PoolIntFields == {"yield_rate", "min_stake", "total_staked", "deposit_fee_bps", "paused"}

PoolDatum(name, rate, minStake, total, staking, feeBps, paused) ==
    [pool_nft_policy |-> PoolNftPolicyId, pool_nft_name |-> name,
     stake_token_policy |-> StakeTokenPolicy, stake_token_name |-> StakeTokenName,
     reward_token_policy |-> RewardTokenPolicy, reward_token_name |-> RewardTokenName,
     yield_rate |-> rate, min_stake |-> minStake, owner |-> OwnerPkh,
     total_staked |-> total, staking_validator_hash |-> staking,
     position_nft_policy_hash |-> PositionPolicyId, platform_fee_pkh |-> FeePkh,
     deposit_fee_bps |-> feeBps, burn_address_hash |-> BurnScriptHash,
     paused |-> paused]

PlatformAuthorityDatum(creator, admin, policy, name) ==
    [pool_creator_pkh |-> creator, platform_admin_pkh |-> admin,
     platform_nft_policy |-> policy, platform_nft_name |-> name]

-----------------------------------------------------------------------------
(* pool_validator_v3.py: helpers *)

has_nft(v, policy, name) ==
    /\ <<policy, name>> \in DOMAIN v
    /\ v[<<policy, name>>] >= 1

get_token_amount(v, policy, name) ==
    IF <<policy, name>> \in DOMAIN v THEN v[<<policy, name>>] ELSE 0

\* a variant that is content with any signature
signed_by_anyone(tx, pkh) == tx.signatories # {}

signed_by(tx, pkh) == \E s \in tx.signatories : s = pkh

nft_burned(tx, policy, name) ==
    /\ <<policy, name>> \in DOMAIN tx.mint
    /\ tx.mint[<<policy, name>>] = -1

\* a variant that looks for one fixed staking validator, whatever the record names
staking_validator_spent_fixed(tx, staking_validator_hash) ==
    \E i \in 1..Len(tx.inputs) :
        LET cred == tx.inputs[i].resolved.address.payment_credential IN
        /\ cred.tag = "ScriptCredential"
        /\ cred.credential_hash = StakingHashA

staking_validator_spent(tx, staking_validator_hash) ==
    \E i \in 1..Len(tx.inputs) :
        LET cred == tx.inputs[i].resolved.address.payment_credential IN
        /\ cred.tag = "ScriptCredential"
        /\ cred.credential_hash = staking_validator_hash

\* the position in tx.inputs of the input being spent, 0 when there is none
find_own_input(tx, ref) ==
    LET hits == {i \in 1..Len(tx.inputs) : tx.inputs[i].out_ref = ref} IN
    IF hits = {} THEN 0 ELSE CHOOSE i \in hits : \A j \in hits : i <= j

\* the position in tx.outputs of the first output at addr holding the NFT,
\* 0 when there is none ("Continuing output not found")
find_continuing_output(tx, addr, policy, name) ==
    LET hits == {i \in 1..Len(tx.outputs) :
                    /\ tx.outputs[i].address = addr
                    /\ has_nft(tx.outputs[i].value, policy, name)} IN
    IF hits = {} THEN 0 ELSE CHOOSE i \in hits : \A j \in hits : i <= j

\* a variant that takes a payment to any key for the fee
verify_platform_fee_paid_any_key(tx, datum, fee_amount, token_policy, token_name) ==
    \/ fee_amount = 0
    \/ \E i \in 1..Len(tx.outputs) :
        LET cred == tx.outputs[i].address.payment_credential IN
        /\ cred.tag = "PubKeyCredential"
        /\ get_token_amount(tx.outputs[i].value, token_policy, token_name) >= fee_amount

verify_platform_fee_paid(tx, datum, fee_amount, token_policy, token_name) ==
    \/ fee_amount = 0
    \/ \E i \in 1..Len(tx.outputs) :
        LET cred == tx.outputs[i].address.payment_credential IN
        /\ cred.tag = "PubKeyCredential"
        /\ cred.credential_hash = datum.platform_fee_pkh
        /\ get_token_amount(tx.outputs[i].value, token_policy, token_name) >= fee_amount

\* a variant that charges no fee
calculate_fee_free(amount, fee_bps) == 0

calculate_fee(amount, fee_bps) == (amount * fee_bps) \div BpsDenominator

\* a variant that forgets to compare the owner
datum_matches_except_total_staked_loose(new_datum, datum, expected_total) ==
    /\ new_datum.pool_nft_policy = datum.pool_nft_policy
    /\ new_datum.pool_nft_name = datum.pool_nft_name
    /\ new_datum.stake_token_policy = datum.stake_token_policy
    /\ new_datum.stake_token_name = datum.stake_token_name
    /\ new_datum.reward_token_policy = datum.reward_token_policy
    /\ new_datum.reward_token_name = datum.reward_token_name
    /\ new_datum.yield_rate = datum.yield_rate
    /\ new_datum.min_stake = datum.min_stake
    /\ new_datum.total_staked = expected_total
    /\ new_datum.staking_validator_hash = datum.staking_validator_hash
    /\ new_datum.position_nft_policy_hash = datum.position_nft_policy_hash
    /\ new_datum.platform_fee_pkh = datum.platform_fee_pkh
    /\ new_datum.deposit_fee_bps = datum.deposit_fee_bps
    /\ new_datum.burn_address_hash = datum.burn_address_hash
    /\ new_datum.paused = datum.paused

datum_matches_except_total_staked(new_datum, datum, expected_total) ==
    /\ new_datum.pool_nft_policy = datum.pool_nft_policy
    /\ new_datum.pool_nft_name = datum.pool_nft_name
    /\ new_datum.stake_token_policy = datum.stake_token_policy
    /\ new_datum.stake_token_name = datum.stake_token_name
    /\ new_datum.reward_token_policy = datum.reward_token_policy
    /\ new_datum.reward_token_name = datum.reward_token_name
    /\ new_datum.yield_rate = datum.yield_rate
    /\ new_datum.min_stake = datum.min_stake
    /\ new_datum.owner = datum.owner
    /\ new_datum.total_staked = expected_total
    /\ new_datum.staking_validator_hash = datum.staking_validator_hash
    /\ new_datum.position_nft_policy_hash = datum.position_nft_policy_hash
    /\ new_datum.platform_fee_pkh = datum.platform_fee_pkh
    /\ new_datum.deposit_fee_bps = datum.deposit_fee_bps
    /\ new_datum.burn_address_hash = datum.burn_address_hash
    /\ new_datum.paused = datum.paused

datum_unchanged(new_datum, datum) ==
    datum_matches_except_total_staked(new_datum, datum, datum.total_staked)

datum_matches_except_paused(new_datum, datum, expected_paused) ==
    /\ new_datum.pool_nft_policy = datum.pool_nft_policy
    /\ new_datum.pool_nft_name = datum.pool_nft_name
    /\ new_datum.stake_token_policy = datum.stake_token_policy
    /\ new_datum.stake_token_name = datum.stake_token_name
    /\ new_datum.reward_token_policy = datum.reward_token_policy
    /\ new_datum.reward_token_name = datum.reward_token_name
    /\ new_datum.yield_rate = datum.yield_rate
    /\ new_datum.min_stake = datum.min_stake
    /\ new_datum.owner = datum.owner
    /\ new_datum.total_staked = datum.total_staked
    /\ new_datum.staking_validator_hash = datum.staking_validator_hash
    /\ new_datum.position_nft_policy_hash = datum.position_nft_policy_hash
    /\ new_datum.platform_fee_pkh = datum.platform_fee_pkh
    /\ new_datum.deposit_fee_bps = datum.deposit_fee_bps
    /\ new_datum.burn_address_hash = datum.burn_address_hash
    /\ new_datum.paused = expected_paused

\* UpdatePool's unlabelled assertions: the first field that fails, "" when none
update_pool_mismatch(new_datum, datum, new_yield_rate) ==
    IF new_datum.pool_nft_policy # datum.pool_nft_policy THEN "pool_nft_policy"
    ELSE IF new_datum.pool_nft_name # datum.pool_nft_name THEN "pool_nft_name"
    ELSE IF new_datum.stake_token_policy # datum.stake_token_policy THEN "stake_token_policy"
    ELSE IF new_datum.stake_token_name # datum.stake_token_name THEN "stake_token_name"
    ELSE IF new_datum.reward_token_policy # datum.reward_token_policy THEN "reward_token_policy"
    ELSE IF new_datum.reward_token_name # datum.reward_token_name THEN "reward_token_name"
    ELSE IF new_datum.yield_rate # new_yield_rate THEN "yield_rate"
    ELSE IF new_datum.min_stake # datum.min_stake THEN "min_stake"
    ELSE IF new_datum.owner # datum.owner THEN "owner"
    ELSE IF new_datum.total_staked # datum.total_staked THEN "total_staked"
    ELSE IF new_datum.staking_validator_hash # datum.staking_validator_hash
        THEN "staking_validator_hash"
    ELSE IF new_datum.position_nft_policy_hash # datum.position_nft_policy_hash
        THEN "position_nft_policy_hash"
    ELSE IF new_datum.platform_fee_pkh # datum.platform_fee_pkh THEN "platform_fee_pkh"
    ELSE IF new_datum.deposit_fee_bps # datum.deposit_fee_bps THEN "deposit_fee_bps"
    ELSE IF new_datum.burn_address_hash # datum.burn_address_hash THEN "burn_address_hash"
    ELSE IF new_datum.paused # datum.paused THEN "paused"
    ELSE ""

-----------------------------------------------------------------------------
(* pool_validator_v3.py: the branches of validator, one per redeemer.      *)
(* Each returns "OK" or the message of the first failing assertion.        *)

pool_stake(tx, own_out, datum, redeemer) ==
    IF datum.paused # 0 THEN "Pool is paused - no new stakes allowed"
    ELSE IF ~(redeemer.amount >= datum.min_stake) THEN "Below minimum stake"
    ELSE LET c == find_continuing_output(tx, own_out.address,
                      datum.pool_nft_policy, datum.pool_nft_name) IN
    IF c = 0 THEN "Continuing output not found"
    ELSE LET cont == tx.outputs[c] IN
    IF ~IsSomeOutputDatum(cont.datum) THEN "Missing inline datum"
    ELSE LET new_datum == cont.datum[1]
             fee == calculate_fee(redeemer.amount, datum.deposit_fee_bps) IN
    IF ~datum_matches_except_total_staked(new_datum, datum,
            datum.total_staked + redeemer.amount) THEN "Datum mismatch"
    ELSE IF ~verify_platform_fee_paid(tx, datum, fee,
            datum.stake_token_policy, datum.stake_token_name) THEN "Fee not paid"
    ELSE "OK"

\* a variant of the Unstake branch without the bound on the amount
pool_unstake_unbounded(tx, own_out, datum, redeemer) ==
    IF ~staking_validator_spent(tx, datum.staking_validator_hash)
        THEN "Staking validator must authorize unstake"
    ELSE IF ~(redeemer.amount > 0) THEN "Amount must be positive"
    ELSE LET c == find_continuing_output(tx, own_out.address,
                      datum.pool_nft_policy, datum.pool_nft_name) IN
    IF c = 0 THEN "Continuing output not found"
    ELSE LET cont == tx.outputs[c] IN
    IF ~IsSomeOutputDatum(cont.datum) THEN "Missing inline datum"
    ELSE LET new_datum == cont.datum[1]
             old_stake == get_token_amount(own_out.value,
                              datum.stake_token_policy, datum.stake_token_name)
             new_stake == get_token_amount(cont.value,
                              datum.stake_token_policy, datum.stake_token_name) IN
    IF ~(old_stake >= new_stake + redeemer.amount) THEN "Stake tokens not removed"
    ELSE IF ~datum_matches_except_total_staked(new_datum, datum,
            datum.total_staked - redeemer.amount) THEN "Datum mismatch"
    ELSE "OK"

pool_unstake(tx, own_out, datum, redeemer) ==
    IF ~staking_validator_spent(tx, datum.staking_validator_hash)
        THEN "Staking validator must authorize unstake"
    ELSE IF ~(redeemer.amount > 0) THEN "Amount must be positive"
    ELSE IF ~(redeemer.amount <= datum.total_staked) THEN "Exceeds total staked"
    ELSE LET c == find_continuing_output(tx, own_out.address,
                      datum.pool_nft_policy, datum.pool_nft_name) IN
    IF c = 0 THEN "Continuing output not found"
    ELSE LET cont == tx.outputs[c] IN
    IF ~IsSomeOutputDatum(cont.datum) THEN "Missing inline datum"
    ELSE LET new_datum == cont.datum[1]
             old_stake == get_token_amount(own_out.value,
                              datum.stake_token_policy, datum.stake_token_name)
             new_stake == get_token_amount(cont.value,
                              datum.stake_token_policy, datum.stake_token_name) IN
    IF ~(old_stake >= new_stake + redeemer.amount) THEN "Stake tokens not removed"
    ELSE IF ~datum_matches_except_total_staked(new_datum, datum,
            datum.total_staked - redeemer.amount) THEN "Datum mismatch"
    ELSE "OK"

pool_claim(tx, own_out, datum, redeemer) ==
    IF ~staking_validator_spent(tx, datum.staking_validator_hash)
        THEN "Staking validator must authorize claim"
    ELSE LET c == find_continuing_output(tx, own_out.address,
                      datum.pool_nft_policy, datum.pool_nft_name) IN
    IF c = 0 THEN "Continuing output not found"
    ELSE LET cont == tx.outputs[c] IN
    IF ~IsSomeOutputDatum(cont.datum) THEN "Missing inline datum"
    ELSE LET new_datum == cont.datum[1]
             old_rewards == get_token_amount(own_out.value,
                                datum.reward_token_policy, datum.reward_token_name)
             new_rewards == get_token_amount(cont.value,
                                datum.reward_token_policy, datum.reward_token_name) IN
    IF ~(old_rewards > new_rewards) THEN "No rewards claimed"
    ELSE IF ~datum_unchanged(new_datum, datum) THEN "Datum changed"
    ELSE "OK"

\* a variant of the UpdatePool branch with no upper bound on the rate
pool_update_unbounded(tx, own_out, datum, redeemer) ==
    IF ~signed_by(tx, datum.owner) THEN "Owner signature required"
    ELSE IF ~(redeemer.new_yield_rate > 0) THEN "Rate must be positive"
    ELSE LET c == find_continuing_output(tx, own_out.address,
                      datum.pool_nft_policy, datum.pool_nft_name) IN
    IF c = 0 THEN "Continuing output not found"
    ELSE LET cont == tx.outputs[c] IN
    IF ~IsSomeOutputDatum(cont.datum) THEN "Missing inline datum"
    ELSE LET bad == update_pool_mismatch(cont.datum[1], datum, redeemer.new_yield_rate) IN
    IF bad # "" THEN "AssertionError"
    ELSE "OK"

pool_update(tx, own_out, datum, redeemer) ==
    IF ~signed_by(tx, datum.owner) THEN "Owner signature required"
    ELSE IF ~(redeemer.new_yield_rate > 0) THEN "Rate must be positive"
    ELSE IF ~(redeemer.new_yield_rate <= MaxYieldRate) THEN "Rate exceeds maximum"
    ELSE LET c == find_continuing_output(tx, own_out.address,
                      datum.pool_nft_policy, datum.pool_nft_name) IN
    IF c = 0 THEN "Continuing output not found"
    ELSE LET cont == tx.outputs[c] IN
    IF ~IsSomeOutputDatum(cont.datum) THEN "Missing inline datum"
    ELSE LET bad == update_pool_mismatch(cont.datum[1], datum, redeemer.new_yield_rate) IN
    IF bad # "" THEN "AssertionError"
    ELSE "OK"

\* a variant of the ClosePool branch that does not ask for a paused pool
pool_close_unpaused(tx, own_out, datum, redeemer) ==
    IF ~signed_by(tx, datum.owner) THEN "Owner signature required"
    ELSE IF ~nft_burned(tx, datum.pool_nft_policy, datum.pool_nft_name)
        THEN "Pool NFT must be burned"
    ELSE "OK"

pool_close(tx, own_out, datum, redeemer) ==
    IF ~signed_by(tx, datum.owner) THEN "Owner signature required"
    ELSE IF datum.paused # 1 THEN "Pool must be paused before closing"
    ELSE IF ~nft_burned(tx, datum.pool_nft_policy, datum.pool_nft_name)
        THEN "Pool NFT must be burned"
    ELSE "OK"

\* a variant of the FundTreasury branch that does not compare the balances
pool_fund_unfunded(tx, own_out, datum, redeemer) ==
    IF ~signed_by(tx, datum.owner) THEN "Owner signature required"
    ELSE IF ~(redeemer.amount > 0) THEN "Amount must be positive"
    ELSE LET c == find_continuing_output(tx, own_out.address,
                      datum.pool_nft_policy, datum.pool_nft_name) IN
    IF c = 0 THEN "Continuing output not found"
    ELSE LET cont == tx.outputs[c] IN
    IF ~IsSomeOutputDatum(cont.datum) THEN "Missing inline datum"
    ELSE LET new_datum == cont.datum[1]
             fee == calculate_fee(redeemer.amount, datum.deposit_fee_bps) IN
    IF ~datum_unchanged(new_datum, datum) THEN "Datum changed"
    ELSE IF ~verify_platform_fee_paid(tx, datum, fee,
            datum.reward_token_policy, datum.reward_token_name) THEN "Fee not paid"
    ELSE "OK"

pool_fund(tx, own_out, datum, redeemer) ==
    IF ~signed_by(tx, datum.owner) THEN "Owner signature required"
    ELSE IF ~(redeemer.amount > 0) THEN "Amount must be positive"
    ELSE LET c == find_continuing_output(tx, own_out.address,
                      datum.pool_nft_policy, datum.pool_nft_name) IN
    IF c = 0 THEN "Continuing output not found"
    ELSE LET cont == tx.outputs[c] IN
    IF ~IsSomeOutputDatum(cont.datum) THEN "Missing inline datum"
    ELSE LET new_datum == cont.datum[1]
             old_rewards == get_token_amount(own_out.value,
                                datum.reward_token_policy, datum.reward_token_name)
             new_rewards == get_token_amount(cont.value,
                                datum.reward_token_policy, datum.reward_token_name)
             fee == calculate_fee(redeemer.amount, datum.deposit_fee_bps) IN
    IF ~(new_rewards >= old_rewards + redeemer.amount) THEN "Reward tokens not added"
    ELSE IF ~datum_unchanged(new_datum, datum) THEN "Datum changed"
    ELSE IF ~verify_platform_fee_paid(tx, datum, fee,
            datum.reward_token_policy, datum.reward_token_name) THEN "Fee not paid"
    ELSE "OK"

\* a variant of the WithdrawTreasury branch that does not compare the balances
pool_withdraw_unremoved(tx, own_out, datum, redeemer) ==
    IF ~signed_by(tx, datum.owner) THEN "Owner signature required"
    ELSE IF ~(redeemer.amount > 0) THEN "Amount must be positive"
    ELSE LET c == find_continuing_output(tx, own_out.address,
                      datum.pool_nft_policy, datum.pool_nft_name) IN
    IF c = 0 THEN "Continuing output not found"
    ELSE LET cont == tx.outputs[c] IN
    IF ~IsSomeOutputDatum(cont.datum) THEN "Missing inline datum"
    ELSE IF ~datum_unchanged(cont.datum[1], datum) THEN "Datum changed"
    ELSE "OK"

pool_withdraw(tx, own_out, datum, redeemer) ==
    IF ~signed_by(tx, datum.owner) THEN "Owner signature required"
    ELSE IF ~(redeemer.amount > 0) THEN "Amount must be positive"
    ELSE LET c == find_continuing_output(tx, own_out.address,
                      datum.pool_nft_policy, datum.pool_nft_name) IN
    IF c = 0 THEN "Continuing output not found"
    ELSE LET cont == tx.outputs[c] IN
    IF ~IsSomeOutputDatum(cont.datum) THEN "Missing inline datum"
    ELSE LET new_datum == cont.datum[1]
             old_rewards == get_token_amount(own_out.value,
                                datum.reward_token_policy, datum.reward_token_name)
             new_rewards == get_token_amount(cont.value,
                                datum.reward_token_policy, datum.reward_token_name) IN
    IF ~(old_rewards >= new_rewards + redeemer.amount) THEN "Reward tokens not removed"
    ELSE IF ~datum_unchanged(new_datum, datum) THEN "Datum changed"
    ELSE "OK"

pool_pause(tx, own_out, datum, redeemer) ==
    IF ~signed_by(tx, datum.owner) THEN "Owner signature required"
    ELSE IF ~(redeemer.pause = 0 \/ redeemer.pause = 1) THEN "Pause must be 0 or 1"
    ELSE LET c == find_continuing_output(tx, own_out.address,
                      datum.pool_nft_policy, datum.pool_nft_name) IN
    IF c = 0 THEN "Continuing output not found"
    ELSE LET cont == tx.outputs[c] IN
    IF ~IsSomeOutputDatum(cont.datum) THEN "Missing inline datum"
    ELSE IF ~datum_matches_except_paused(cont.datum[1], datum, redeemer.pause)
        THEN "Only paused field can change"
    ELSE "OK"

\* a variant of the entry that trusts the record without looking for the NFT
pool_own_input_unverified(ctx) ==
    LET tx == ctx.transaction
        i == find_own_input(tx, ctx.purpose.tx_out_ref) IN
    IF i = 0 THEN "Own input not found"
    ELSE LET own_out == tx.inputs[i].resolved IN
    IF ~IsSomeOutputDatum(own_out.datum) THEN "Missing inline datum on input"
    ELSE "OK"

\* the entry of the validator: own input, its inline datum, the NFT it names
pool_own_input(ctx) ==
    LET tx == ctx.transaction
        i == find_own_input(tx, ctx.purpose.tx_out_ref) IN
    IF i = 0 THEN "Own input not found"
    ELSE LET own_out == tx.inputs[i].resolved IN
    IF ~IsSomeOutputDatum(own_out.datum) THEN "Missing inline datum on input"
    ELSE IF ~has_nft(own_out.value, own_out.datum[1].pool_nft_policy,
                     own_out.datum[1].pool_nft_name) THEN "Pool NFT not found"
    ELSE "OK"

pool_validator(ctx) ==
    LET tx == ctx.transaction
        redeemer == ctx.redeemer
        entry == pool_own_input(ctx) IN
    IF ctx.purpose.tag # "Spending" THEN "AssertionError"
    ELSE IF entry # "OK" THEN entry
    ELSE LET own_out == tx.inputs[find_own_input(tx, ctx.purpose.tx_out_ref)].resolved
             datum == own_out.datum[1] IN
    CASE redeemer.tag = "Stake" -> pool_stake(tx, own_out, datum, redeemer)
      [] redeemer.tag = "Unstake" -> pool_unstake(tx, own_out, datum, redeemer)
      [] redeemer.tag = "Claim" -> pool_claim(tx, own_out, datum, redeemer)
      [] redeemer.tag = "UpdatePool" -> pool_update(tx, own_out, datum, redeemer)
      [] redeemer.tag = "ClosePool" -> pool_close(tx, own_out, datum, redeemer)
      [] redeemer.tag = "FundTreasury" -> pool_fund(tx, own_out, datum, redeemer)
      [] redeemer.tag = "WithdrawTreasury" -> pool_withdraw(tx, own_out, datum, redeemer)
      [] redeemer.tag = "PausePool" -> pool_pause(tx, own_out, datum, redeemer)
      [] OTHER -> "Invalid redeemer"


-----------------------------------------------------------------------------
(* pool_nft_policy_v3.py and platform_authority_nft_policy.py *)

has_token(v, policy, name, qty) ==
    /\ <<policy, name>> \in DOMAIN v
    /\ v[<<policy, name>>] = qty

\* tx.mint[policy_id]: the token names minted or burned under the policy
minted_names(tx, policy_id) == {a[2] : a \in {b \in DOMAIN tx.mint : b[1] = policy_id}}

\* a variant that takes the first reference input with a record, token or not
find_platform_authority_by_record(tx, authority_nft_policy, authority_nft_name) ==
    LET hits == {i \in 1..Len(tx.reference_inputs) :
                    IsSomeOutputDatum(tx.reference_inputs[i].resolved.datum)} IN
    IF hits = {} THEN 0 ELSE CHOOSE i \in hits : \A j \in hits : i <= j

\* the position in tx.reference_inputs of the first one holding the authority
\* NFT with an inline datum, 0 when there is none
find_platform_authority(tx, authority_nft_policy, authority_nft_name) ==
    LET hits == {i \in 1..Len(tx.reference_inputs) :
                    /\ has_nft(tx.reference_inputs[i].resolved.value,
                               authority_nft_policy, authority_nft_name)
                    /\ IsSomeOutputDatum(tx.reference_inputs[i].resolved.datum)} IN
    IF hits = {} THEN 0 ELSE CHOOSE i \in hits : \A j \in hits : i <= j

output_to_validator(out, script_hash) ==
    /\ out.address.payment_credential.tag = "ScriptCredential"
    /\ out.address.payment_credential.credential_hash = script_hash

\* a variant without the upper bound on yield_rate
valid_datum_unbounded(out, policy, name) ==
    /\ IsSomeOutputDatum(out.datum)
    /\ LET datum == out.datum[1] IN
       /\ datum.pool_nft_policy = policy
       /\ datum.pool_nft_name = name
       /\ ~(datum.yield_rate <= 0)
       /\ ~(datum.min_stake <= 0)
       /\ len(datum.owner) = HashLen
       /\ datum.total_staked = 0
       /\ len(datum.staking_validator_hash) = HashLen
       /\ len(datum.position_nft_policy_hash) = HashLen
       /\ len(datum.platform_fee_pkh) = HashLen
       /\ len(datum.burn_address_hash) = HashLen

valid_datum(out, policy, name) ==
    /\ IsSomeOutputDatum(out.datum)
    /\ LET datum == out.datum[1] IN
       /\ datum.pool_nft_policy = policy
       /\ datum.pool_nft_name = name
       /\ ~(datum.yield_rate <= 0)
       /\ ~(datum.yield_rate > MaxYieldRate)
       /\ ~(datum.min_stake <= 0)
       /\ len(datum.owner) = HashLen
       /\ datum.total_staked = 0
       /\ len(datum.staking_validator_hash) = HashLen
       /\ len(datum.position_nft_policy_hash) = HashLen
       /\ len(datum.platform_fee_pkh) = HashLen
       /\ len(datum.burn_address_hash) = HashLen

\* a variant that does not measure platform_admin_pkh
valid_authority_datum_unmeasured(out, policy, name) ==
    /\ IsSomeOutputDatum(out.datum)
    /\ LET datum == out.datum[1] IN
       /\ datum.platform_nft_policy = policy
       /\ datum.platform_nft_name = name
       /\ len(datum.pool_creator_pkh) = HashLen

valid_authority_datum(out, policy, name) ==
    /\ IsSomeOutputDatum(out.datum)
    /\ LET datum == out.datum[1] IN
       /\ datum.platform_nft_policy = policy
       /\ datum.platform_nft_name = name
       /\ len(datum.pool_creator_pkh) = HashLen
       /\ len(datum.platform_admin_pkh) = HashLen

\* the name a mint must produce: the hash of the first input's transaction id
one_shot_name(tx) == sha2_256(tx.inputs[1].out_ref.id)

\* "Must mint exactly 1 token" .. "Must mint exactly 1", shared by both policies
mint_exactly_one(tx, policy_id, token_name) ==
    IF Cardinality(minted_names(tx, policy_id)) # 1 THEN "Must mint exactly 1 token"
    ELSE IF token_name \notin minted_names(tx, policy_id) THEN "Invalid token name"
    ELSE IF tx.mint[<<policy_id, token_name>>] # 1 THEN "Must mint exactly 1"
    ELSE "OK"

\* "Must burn (negative quantity)", shared by both policies
burn_only(tx, policy_id) ==
    IF \A n \in minted_names(tx, policy_id) : tx.mint[<<policy_id, n>>] < 0
        THEN "OK" ELSE "Must burn (negative quantity)"

pool_nft_mint(tx, policy_id, redeemer) ==
    IF len(redeemer.pool_validator_hash) # HashLen THEN "Invalid pool_validator_hash length"
    ELSE IF len(redeemer.platform_authority_nft_policy) # HashLen
        THEN "Invalid authority policy length"
    ELSE IF len(redeemer.platform_authority_nft_name) # NameLen
        THEN "Invalid authority name length"
    ELSE LET a == find_platform_authority(tx, redeemer.platform_authority_nft_policy,
                      redeemer.platform_authority_nft_name) IN
    IF a = 0 THEN "Platform Authority not found in reference inputs"
    ELSE LET authority == tx.reference_inputs[a].resolved.datum[1] IN
    IF authority.platform_nft_policy # redeemer.platform_authority_nft_policy
        THEN "Authority policy mismatch"
    ELSE IF authority.platform_nft_name # redeemer.platform_authority_nft_name
        THEN "Authority name mismatch"
    ELSE IF ~signed_by(tx, authority.pool_creator_pkh) THEN "Platform pool creator must sign"
    ELSE LET token_name == one_shot_name(tx)
             one == mint_exactly_one(tx, policy_id, token_name) IN
    IF one # "OK" THEN one
    ELSE IF ~(redeemer.output_index >= 0) THEN "Invalid output index"
    ELSE IF ~(redeemer.output_index < Len(tx.outputs)) THEN "Output index out of range"
    ELSE LET target_out == tx.outputs[redeemer.output_index + 1] IN
    IF ~output_to_validator(target_out, redeemer.pool_validator_hash)
        THEN "NFT must go to pool validator"
    ELSE IF ~has_token(target_out.value, policy_id, token_name, 1) THEN "NFT not in output"
    ELSE IF ~valid_datum(target_out, policy_id, token_name) THEN "Invalid pool datum"
    ELSE "OK"

pool_nft_policy(ctx) ==
    IF ctx.purpose.tag # "Minting" THEN "AssertionError"
    ELSE CASE ctx.redeemer.tag = "Mint" ->
                pool_nft_mint(ctx.transaction, ctx.purpose.policy_id, ctx.redeemer)
           [] ctx.redeemer.tag = "Burn" ->
                burn_only(ctx.transaction, ctx.purpose.policy_id)
           [] OTHER -> "Invalid redeemer"

authority_mint(tx, policy_id, redeemer) ==
    LET token_name == one_shot_name(tx)
        one == mint_exactly_one(tx, policy_id, token_name) IN
    IF one # "OK" THEN one
    ELSE IF ~(redeemer.output_index >= 0) THEN "Invalid output index"
    ELSE IF ~(redeemer.output_index < Len(tx.outputs)) THEN "Output index out of range"
    ELSE LET target_out == tx.outputs[redeemer.output_index + 1] IN
    IF ~has_token(target_out.value, policy_id, token_name, 1) THEN "NFT not in output"
    ELSE IF ~valid_authority_datum(target_out, policy_id, token_name)
        THEN "Invalid authority datum"
    ELSE "OK"

platform_authority_policy(ctx) ==
    IF ctx.purpose.tag # "Minting" THEN "AssertionError"
    ELSE CASE ctx.redeemer.tag = "MintAuthority" ->
                authority_mint(ctx.transaction, ctx.purpose.policy_id, ctx.redeemer)
           [] ctx.redeemer.tag = "BurnAuthority" ->
                burn_only(ctx.transaction, ctx.purpose.policy_id)
           [] OTHER -> "Invalid redeemer"


-----------------------------------------------------------------------------
(* staking_shared_v3.py: the User Position State Machine *)

\* redeemers of staking_shared_v3 (Claim is the record of that name above)
Register(initial_deposit) == [tag |-> "Register", initial_deposit |-> initial_deposit]
Deposit(amount) == [tag |-> "Deposit", amount |-> amount]
Withdraw(amount) == [tag |-> "Withdraw", amount |-> amount]
Compound == [tag |-> "Compound"]
ForceRefund == [tag |-> "ForceRefund"]

PositionFields ==
    {"pool_nft_policy", "pool_nft_name", "user_pkh", "position_nft_name",
     "stake_amount", "staked_at", "last_claim", "total_claimed"}

PositionIntFields == {"stake_amount", "staked_at", "last_claim", "total_claimed"}

UserPositionDatum(policy, name, user, position, stake, staked_at, last_claim, claimed) ==
    [pool_nft_policy |-> policy, pool_nft_name |-> name, user_pkh |-> user,
     position_nft_name |-> position, stake_amount |-> stake, staked_at |-> staked_at,
     last_claim |-> last_claim, total_claimed |-> claimed]

\* the bounds of a validity interval
FinitePOSIXTime(t) == [tag |-> "FinitePOSIXTime", time |-> t]
NegInfPOSIXTime == [tag |-> "NegInfPOSIXTime", time |-> 0]
PosInfPOSIXTime == [tag |-> "PosInfPOSIXTime", time |-> 0]
POSIXTimeRange(lower, upper) ==
    [lower_bound |-> [limit |-> lower], upper_bound |-> [limit |-> upper]]

\* the record the searches return when they find no pool
DummyPoolDatum ==
    [pool_nft_policy |-> Bytes(0, 0), pool_nft_name |-> Bytes(0, 0),
     stake_token_policy |-> Bytes(0, 0), stake_token_name |-> Bytes(0, 0),
     reward_token_policy |-> Bytes(0, 0), reward_token_name |-> Bytes(0, 0),
     yield_rate |-> 0, min_stake |-> 0, owner |-> Bytes(0, 0), total_staked |-> 0,
     staking_validator_hash |-> Bytes(0, 0), position_nft_policy_hash |-> Bytes(0, 0),
     platform_fee_pkh |-> Bytes(0, 0), deposit_fee_bps |-> 0,
     burn_address_hash |-> Bytes(0, 0), paused |-> 0]

\* the record of the first entry of ins (inputs or reference inputs) that
\* holds the pool NFT and an inline datum
find_pool_config_in(ins, nft_policy, nft_name) ==
    LET hits == {i \in 1..Len(ins) :
                    /\ has_nft(ins[i].resolved.value, nft_policy, nft_name)
                    /\ IsSomeOutputDatum(ins[i].resolved.datum)} IN
    IF hits = {} THEN DummyPoolDatum
    ELSE ins[CHOOSE i \in hits : \A j \in hits : i <= j].resolved.datum[1]

find_pool_config_in_refs(tx, nft_policy, nft_name) ==
    find_pool_config_in(tx.reference_inputs, nft_policy, nft_name)

find_pool_config_in_inputs(tx, nft_policy, nft_name) ==
    find_pool_config_in(tx.inputs, nft_policy, nft_name)

\* the pool record of the transaction: reference inputs first, then inputs;
\* the dummy record (yield_rate 0) stands for "Pool config not found"
find_pool_config_reference(tx, nft_policy, nft_name) ==
    LET pool_from_refs == find_pool_config_in_refs(tx, nft_policy, nft_name)
        pool_from_inputs == find_pool_config_in_inputs(tx, nft_policy, nft_name) IN
    IF pool_from_refs.yield_rate > 0 THEN pool_from_refs
    ELSE IF pool_from_inputs.yield_rate > 0 THEN pool_from_inputs
    ELSE DummyPoolDatum

PoolConfigNotFound == "Pool config not found in inputs or reference inputs"

nft_sent_to_burn(tx, pool, nft_policy, nft_name) ==
    \E i \in 1..Len(tx.outputs) :
        LET cred == tx.outputs[i].address.payment_credential IN
        /\ cred.tag = "ScriptCredential"
        /\ cred.credential_hash = pool.burn_address_hash
        /\ has_nft(tx.outputs[i].value, nft_policy, nft_name)

output_to_staker(tx, user_pkh, stake_token_policy, stake_token_name, amount) ==
    \E i \in 1..Len(tx.outputs) :
        LET cred == tx.outputs[i].address.payment_credential IN
        /\ cred.tag = "PubKeyCredential"
        /\ cred.credential_hash = user_pkh
        /\ get_token_amount(tx.outputs[i].value, stake_token_policy, stake_token_name)
                >= amount

\* a variant that does not cap the width of the interval
current_time_error_uncapped(tx) ==
    LET lower_limit == tx.validity_range.lower_bound.limit
        upper_limit == tx.validity_range.upper_bound.limit IN
    IF lower_limit.tag # "FinitePOSIXTime" THEN "Must have finite lower time bound"
    ELSE IF upper_limit.tag # "FinitePOSIXTime" THEN "Must have finite upper time bound"
    ELSE ""

\* the first failing assertion of get_current_time, "" when none fails
current_time_error(tx) ==
    LET lower_limit == tx.validity_range.lower_bound.limit
        upper_limit == tx.validity_range.upper_bound.limit IN
    IF lower_limit.tag # "FinitePOSIXTime" THEN "Must have finite lower time bound"
    ELSE IF upper_limit.tag # "FinitePOSIXTime" THEN "Must have finite upper time bound"
    ELSE IF ~(upper_limit.time - lower_limit.time <= MaxWindowMs)
        THEN "Validity window too large (max 10 minutes)"
    ELSE ""

\* the value get_current_time returns: the upper bound
get_current_time(tx) == tx.validity_range.upper_bound.limit.time

\* a variant that counts a started day as a whole one
calculate_rewards_started_days(stake_amount, yield_rate, last_claim, current_time) ==
    IF stake_amount = 0 THEN 0
    ELSE LET time_elapsed_ms == current_time - last_claim
             days_elapsed == (time_elapsed_ms + MsPerDay - 1) \div MsPerDay
         IN (stake_amount * yield_rate * days_elapsed) \div (365 * 10000)

calculate_rewards(stake_amount, yield_rate, last_claim, current_time) ==
    IF stake_amount = 0 THEN 0
    ELSE LET time_elapsed_ms == current_time - last_claim
             days_elapsed == time_elapsed_ms \div MsPerDay
         IN (stake_amount * yield_rate * days_elapsed) \div (365 * 10000)

\* "Verify other fields unchanged": the unlabelled assertions of Deposit,
\* Claim and Compound over the fields in frozen
position_fields_unchanged(new_datum, datum, frozen) ==
    \A f \in frozen : new_datum[f] = datum[f]

staking_force_refund(tx, own_out, datum, redeemer) ==
    LET pool == find_pool_config_reference(tx, datum.pool_nft_policy, datum.pool_nft_name) IN
    IF pool = DummyPoolDatum THEN PoolConfigNotFound
    ELSE IF pool.paused # 1 THEN "Pool must be paused for force refund"
    ELSE IF ~signed_by(tx, pool.owner) THEN "Pool owner signature required"
    ELSE IF ~nft_sent_to_burn(tx, pool, pool.position_nft_policy_hash,
                              datum.position_nft_name) THEN "Position NFT must be burned"
    ELSE IF ~output_to_staker(tx, datum.user_pkh, pool.stake_token_policy,
                              pool.stake_token_name, datum.stake_amount)
        THEN "Staked tokens must be sent to staker"
    ELSE "OK"

staking_register(tx, own_out, datum, redeemer) ==
    IF ~signed_by(tx, datum.user_pkh) THEN "User signature required"
    ELSE LET pool == find_pool_config_reference(tx, datum.pool_nft_policy,
                                                datum.pool_nft_name) IN
    IF pool = DummyPoolDatum THEN PoolConfigNotFound
    ELSE IF pool.paused # 0 THEN "Pool is paused - no new stakes allowed"
    ELSE IF ~(redeemer.initial_deposit >= pool.min_stake) THEN "Below minimum stake"
    ELSE IF datum.stake_amount # redeemer.initial_deposit THEN "Stake amount mismatch"
    ELSE IF current_time_error(tx) # "" THEN current_time_error(tx)
    ELSE LET current_time == get_current_time(tx)
             fee == calculate_fee(redeemer.initial_deposit, pool.deposit_fee_bps) IN
    IF ~(datum.staked_at <= current_time) THEN "Invalid staked_at"
    ELSE IF datum.last_claim # datum.staked_at THEN "last_claim must equal staked_at"
    ELSE IF datum.total_claimed # 0 THEN "total_claimed must be 0"
    ELSE IF ~verify_platform_fee_paid(tx, pool, fee, pool.stake_token_policy,
                                      pool.stake_token_name) THEN "Fee not paid"
    ELSE "OK"

\* a variant of the Deposit branch that does not look at the pause flag
staking_deposit_unpaused(tx, own_out, datum, redeemer) ==
    IF ~signed_by(tx, datum.user_pkh) THEN "User signature required"
    ELSE IF ~(redeemer.amount > 0) THEN "Amount must be positive"
    ELSE LET pool == find_pool_config_reference(tx, datum.pool_nft_policy,
                                                datum.pool_nft_name) IN
    IF pool = DummyPoolDatum THEN PoolConfigNotFound
    ELSE LET fee == calculate_fee(redeemer.amount, pool.deposit_fee_bps)
             net_amount == redeemer.amount - fee
             c == find_continuing_output(tx, own_out.address,
                      pool.position_nft_policy_hash, datum.position_nft_name) IN
    IF c = 0 THEN "Continuing output not found"
    ELSE LET cont == tx.outputs[c] IN
    IF ~IsSomeOutputDatum(cont.datum) THEN "Missing inline datum"
    ELSE LET new_datum == cont.datum[1] IN
    IF new_datum.stake_amount # datum.stake_amount + net_amount THEN "Stake not updated"
    ELSE IF ~position_fields_unchanged(new_datum, datum,
                {"pool_nft_policy", "pool_nft_name", "user_pkh", "position_nft_name",
                 "staked_at", "last_claim", "total_claimed"}) THEN "AssertionError"
    ELSE IF ~verify_platform_fee_paid(tx, pool, fee, pool.stake_token_policy,
                                      pool.stake_token_name) THEN "Fee not paid"
    ELSE "OK"

staking_deposit(tx, own_out, datum, redeemer) ==
    IF ~signed_by(tx, datum.user_pkh) THEN "User signature required"
    ELSE IF ~(redeemer.amount > 0) THEN "Amount must be positive"
    ELSE LET pool == find_pool_config_reference(tx, datum.pool_nft_policy,
                                                datum.pool_nft_name) IN
    IF pool = DummyPoolDatum THEN PoolConfigNotFound
    ELSE IF pool.paused # 0 THEN "Pool is paused - no deposits allowed"
    ELSE LET fee == calculate_fee(redeemer.amount, pool.deposit_fee_bps)
             net_amount == redeemer.amount - fee
             c == find_continuing_output(tx, own_out.address,
                      pool.position_nft_policy_hash, datum.position_nft_name) IN
    IF c = 0 THEN "Continuing output not found"
    ELSE LET cont == tx.outputs[c] IN
    IF ~IsSomeOutputDatum(cont.datum) THEN "Missing inline datum"
    ELSE LET new_datum == cont.datum[1] IN
    IF new_datum.stake_amount # datum.stake_amount + net_amount THEN "Stake not updated"
    ELSE IF ~position_fields_unchanged(new_datum, datum,
                {"pool_nft_policy", "pool_nft_name", "user_pkh", "position_nft_name",
                 "staked_at", "last_claim", "total_claimed"}) THEN "AssertionError"
    ELSE IF ~verify_platform_fee_paid(tx, pool, fee, pool.stake_token_policy,
                                      pool.stake_token_name) THEN "Fee not paid"
    ELSE "OK"

staking_withdraw(tx, own_out, datum, redeemer) ==
    IF ~signed_by(tx, datum.user_pkh) THEN "User signature required"
    ELSE LET pool == find_pool_config_reference(tx, datum.pool_nft_policy,
                                                datum.pool_nft_name)
             withdraw_amount == IF redeemer.amount = 0 THEN datum.stake_amount
                                ELSE redeemer.amount IN
    IF pool = DummyPoolDatum THEN PoolConfigNotFound
    ELSE IF ~(withdraw_amount > 0) THEN "Amount must be positive"
    ELSE IF ~(withdraw_amount <= datum.stake_amount) THEN "Exceeds stake"
    ELSE IF ~nft_sent_to_burn(tx, pool, pool.position_nft_policy_hash,
                              datum.position_nft_name) THEN "NFT must be burned"
    ELSE "OK"

\* a variant of the Claim branch that does not compare total_claimed
staking_claim_any_total(tx, own_out, datum, redeemer) ==
    IF ~signed_by(tx, datum.user_pkh) THEN "User signature required"
    ELSE LET pool == find_pool_config_reference(tx, datum.pool_nft_policy,
                                                datum.pool_nft_name) IN
    IF pool = DummyPoolDatum THEN PoolConfigNotFound
    ELSE IF current_time_error(tx) # "" THEN current_time_error(tx)
    ELSE LET current_time == get_current_time(tx)
             pending_rewards == calculate_rewards(datum.stake_amount, pool.yield_rate,
                                                  datum.last_claim, current_time) IN
    IF ~(pending_rewards > 0) THEN "No rewards to claim"
    ELSE LET c == find_continuing_output(tx, own_out.address,
                      pool.position_nft_policy_hash, datum.position_nft_name) IN
    IF c = 0 THEN "Continuing output not found"
    ELSE LET cont == tx.outputs[c] IN
    IF ~IsSomeOutputDatum(cont.datum) THEN "Missing inline datum"
    ELSE LET new_datum == cont.datum[1] IN
    IF new_datum.last_claim # current_time THEN "last_claim not updated"
    ELSE IF ~position_fields_unchanged(new_datum, datum,
                {"pool_nft_policy", "pool_nft_name", "user_pkh", "position_nft_name",
                 "stake_amount", "staked_at"}) THEN "AssertionError"
    ELSE "OK"

staking_claim(tx, own_out, datum, redeemer) ==
    IF ~signed_by(tx, datum.user_pkh) THEN "User signature required"
    ELSE LET pool == find_pool_config_reference(tx, datum.pool_nft_policy,
                                                datum.pool_nft_name) IN
    IF pool = DummyPoolDatum THEN PoolConfigNotFound
    ELSE IF current_time_error(tx) # "" THEN current_time_error(tx)
    ELSE LET current_time == get_current_time(tx)
             pending_rewards == calculate_rewards(datum.stake_amount, pool.yield_rate,
                                                  datum.last_claim, current_time) IN
    IF ~(pending_rewards > 0) THEN "No rewards to claim"
    ELSE LET c == find_continuing_output(tx, own_out.address,
                      pool.position_nft_policy_hash, datum.position_nft_name) IN
    IF c = 0 THEN "Continuing output not found"
    ELSE LET cont == tx.outputs[c] IN
    IF ~IsSomeOutputDatum(cont.datum) THEN "Missing inline datum"
    ELSE LET new_datum == cont.datum[1] IN
    IF new_datum.last_claim # current_time THEN "last_claim not updated"
    ELSE IF new_datum.total_claimed # datum.total_claimed + pending_rewards
        THEN "total_claimed not updated"
    ELSE IF ~position_fields_unchanged(new_datum, datum,
                {"pool_nft_policy", "pool_nft_name", "user_pkh", "position_nft_name",
                 "stake_amount", "staked_at"}) THEN "AssertionError"
    ELSE "OK"

\* a variant of the Compound branch that takes its fee in the stake token
staking_compound_fee_in_stake(tx, own_out, datum, redeemer) ==
    IF ~signed_by(tx, datum.user_pkh) THEN "User signature required"
    ELSE LET pool == find_pool_config_reference(tx, datum.pool_nft_policy,
                                                datum.pool_nft_name) IN
    IF pool = DummyPoolDatum THEN PoolConfigNotFound
    ELSE IF current_time_error(tx) # "" THEN current_time_error(tx)
    ELSE LET current_time == get_current_time(tx)
             pending_rewards == calculate_rewards(datum.stake_amount, pool.yield_rate,
                                                  datum.last_claim, current_time) IN
    IF ~(pending_rewards > 0) THEN "No rewards to compound"
    ELSE LET fee == calculate_fee(pending_rewards, pool.deposit_fee_bps)
             net_rewards == pending_rewards - fee
             c == find_continuing_output(tx, own_out.address,
                      pool.position_nft_policy_hash, datum.position_nft_name) IN
    IF c = 0 THEN "Continuing output not found"
    ELSE LET cont == tx.outputs[c] IN
    IF ~IsSomeOutputDatum(cont.datum) THEN "Missing inline datum"
    ELSE LET new_datum == cont.datum[1] IN
    IF new_datum.stake_amount # datum.stake_amount + net_rewards
        THEN "stake_amount not updated"
    ELSE IF new_datum.last_claim # current_time THEN "last_claim not updated"
    ELSE IF new_datum.total_claimed # datum.total_claimed + pending_rewards
        THEN "total_claimed not updated"
    ELSE IF ~position_fields_unchanged(new_datum, datum,
                {"pool_nft_policy", "pool_nft_name", "user_pkh", "position_nft_name",
                 "staked_at"}) THEN "AssertionError"
    ELSE IF ~verify_platform_fee_paid(tx, pool, fee, pool.stake_token_policy,
                                      pool.stake_token_name) THEN "Fee not paid"
    ELSE "OK"

staking_compound(tx, own_out, datum, redeemer) ==
    IF ~signed_by(tx, datum.user_pkh) THEN "User signature required"
    ELSE LET pool == find_pool_config_reference(tx, datum.pool_nft_policy,
                                                datum.pool_nft_name) IN
    IF pool = DummyPoolDatum THEN PoolConfigNotFound
    ELSE IF current_time_error(tx) # "" THEN current_time_error(tx)
    ELSE LET current_time == get_current_time(tx)
             pending_rewards == calculate_rewards(datum.stake_amount, pool.yield_rate,
                                                  datum.last_claim, current_time) IN
    IF ~(pending_rewards > 0) THEN "No rewards to compound"
    ELSE LET fee == calculate_fee(pending_rewards, pool.deposit_fee_bps)
             net_rewards == pending_rewards - fee
             c == find_continuing_output(tx, own_out.address,
                      pool.position_nft_policy_hash, datum.position_nft_name) IN
    IF c = 0 THEN "Continuing output not found"
    ELSE LET cont == tx.outputs[c] IN
    IF ~IsSomeOutputDatum(cont.datum) THEN "Missing inline datum"
    ELSE LET new_datum == cont.datum[1] IN
    IF new_datum.stake_amount # datum.stake_amount + net_rewards
        THEN "stake_amount not updated"
    ELSE IF new_datum.last_claim # current_time THEN "last_claim not updated"
    ELSE IF new_datum.total_claimed # datum.total_claimed + pending_rewards
        THEN "total_claimed not updated"
    ELSE IF ~position_fields_unchanged(new_datum, datum,
                {"pool_nft_policy", "pool_nft_name", "user_pkh", "position_nft_name",
                 "staked_at"}) THEN "AssertionError"
    ELSE IF ~verify_platform_fee_paid(tx, pool, fee, pool.reward_token_policy,
                                      pool.reward_token_name) THEN "Fee not paid"
    ELSE "OK"

staking_validator(ctx) ==
    LET tx == ctx.transaction
        redeemer == ctx.redeemer IN
    IF ctx.purpose.tag # "Spending" THEN "AssertionError"
    ELSE LET i == find_own_input(tx, ctx.purpose.tx_out_ref) IN
    IF i = 0 THEN "Own input not found"
    ELSE LET own_out == tx.inputs[i].resolved IN
    IF ~IsSomeOutputDatum(own_out.datum) THEN "Missing inline datum on input"
    ELSE LET datum == own_out.datum[1] IN
    CASE redeemer.tag = "ForceRefund" -> staking_force_refund(tx, own_out, datum, redeemer)
      [] redeemer.tag = "Register" -> staking_register(tx, own_out, datum, redeemer)
      [] redeemer.tag = "Deposit" -> staking_deposit(tx, own_out, datum, redeemer)
      [] redeemer.tag = "Withdraw" -> staking_withdraw(tx, own_out, datum, redeemer)
      [] redeemer.tag = "Claim" -> staking_claim(tx, own_out, datum, redeemer)
      [] redeemer.tag = "Compound" -> staking_compound(tx, own_out, datum, redeemer)
      [] OTHER -> "Invalid redeemer"

-----------------------------------------------------------------------------
(* position_nft_policy_v3.py: the Position Identity policy *)

MintPosition(position_id, nft_policy, nft_name) ==
    [tag |-> "MintPosition", position_id |-> position_id,
     pool_nft_policy |-> nft_policy, pool_nft_name |-> nft_name]
BurnPosition(position_id, nft_policy, nft_name) ==
    [tag |-> "BurnPosition", position_id |-> position_id,
     pool_nft_policy |-> nft_policy, pool_nft_name |-> nft_name]
RemintPosition(old_position_id, new_position_id, nft_policy, nft_name) ==
    [tag |-> "RemintPosition", old_position_id |-> old_position_id,
     new_position_id |-> new_position_id,
     pool_nft_policy |-> nft_policy, pool_nft_name |-> nft_name]

\* the label bytes are four: a name is the label followed by the identifier
make_reference_name(position_id) == <<4 + position_id[1], 2000 + position_id[2]>>
make_user_name(position_id) == <<4 + position_id[1], 3000 + position_id[2]>>

\* the entries of ins that hold the pool NFT with an inline datum
pool_config_hits(ins, nft_policy, nft_name) ==
    {i \in 1..Len(ins) :
        /\ has_nft(ins[i].resolved.value, nft_policy, nft_name)
        /\ IsSomeOutputDatum(ins[i].resolved.datum)}

\* find_pool_config: spent inputs first, then reference inputs; the dummy
\* record stands for "Pool config not found".  First a variant that looks at
\* the reference inputs before the spent inputs.
find_pool_config_refs_first(tx, nft_policy, nft_name) ==
    LET in_inputs == pool_config_hits(tx.inputs, nft_policy, nft_name)
        in_refs == pool_config_hits(tx.reference_inputs, nft_policy, nft_name) IN
    IF in_refs # {}
        THEN tx.reference_inputs[CHOOSE i \in in_refs : \A j \in in_refs : i <= j]
                .resolved.datum[1]
    ELSE IF in_inputs # {}
        THEN tx.inputs[CHOOSE i \in in_inputs : \A j \in in_inputs : i <= j].resolved.datum[1]
    ELSE DummyPoolDatum

find_pool_config(tx, nft_policy, nft_name) ==
    LET in_inputs == pool_config_hits(tx.inputs, nft_policy, nft_name)
        in_refs == pool_config_hits(tx.reference_inputs, nft_policy, nft_name) IN
    IF in_inputs # {}
        THEN tx.inputs[CHOOSE i \in in_inputs : \A j \in in_inputs : i <= j].resolved.datum[1]
    ELSE IF in_refs # {}
        THEN tx.reference_inputs[CHOOSE i \in in_refs : \A j \in in_refs : i <= j]
                .resolved.datum[1]
    ELSE DummyPoolDatum

pool_config_found(tx, nft_policy, nft_name) ==
    \/ pool_config_hits(tx.inputs, nft_policy, nft_name) # {}
    \/ pool_config_hits(tx.reference_inputs, nft_policy, nft_name) # {}

\* the entries of ins that hold the pool NFT at a script address
pool_script_hits(ins, nft_policy, nft_name) ==
    {i \in 1..Len(ins) :
        /\ has_nft(ins[i].resolved.value, nft_policy, nft_name)
        /\ ins[i].resolved.address.payment_credential.tag = "ScriptCredential"}

\* the script hash of the first such spent input, else of the first such
\* reference input; the empty hash stands for "Pool config not found"
get_pool_validator_hash_from_utxo(tx, nft_policy, nft_name) ==
    LET in_inputs == pool_script_hits(tx.inputs, nft_policy, nft_name)
        in_refs == pool_script_hits(tx.reference_inputs, nft_policy, nft_name) IN
    IF in_inputs # {}
        THEN tx.inputs[CHOOSE i \in in_inputs : \A j \in in_inputs : i <= j]
                .resolved.address.payment_credential.credential_hash
    ELSE IF in_refs # {}
        THEN tx.reference_inputs[CHOOSE i \in in_refs : \A j \in in_refs : i <= j]
                .resolved.address.payment_credential.credential_hash
    ELSE Bytes(0, 0)

\* a variant that is content with any script input
authorized_validator_spent_any(tx, pool_validator_hash, staking_validator_hash) ==
    \E i \in 1..Len(tx.inputs) :
        tx.inputs[i].resolved.address.payment_credential.tag = "ScriptCredential"

authorized_validator_spent(tx, pool_validator_hash, staking_validator_hash) ==
    \E i \in 1..Len(tx.inputs) :
        LET cred == tx.inputs[i].resolved.address.payment_credential IN
        /\ cred.tag = "ScriptCredential"
        /\ \/ cred.credential_hash = pool_validator_hash
           \/ cred.credential_hash = staking_validator_hash

\* a variant that does not look at stake_amount
valid_position_datum_any_stake(out) ==
    /\ IsSomeOutputDatum(out.datum)
    /\ len(out.datum[1].pool_nft_policy) = HashLen
    /\ len(out.datum[1].user_pkh) = HashLen
    /\ out.datum[1].staked_at > 0

valid_position_datum(out) ==
    /\ IsSomeOutputDatum(out.datum)
    /\ len(out.datum[1].pool_nft_policy) = HashLen
    /\ len(out.datum[1].user_pkh) = HashLen
    /\ ~(out.datum[1].stake_amount <= 0)
    /\ ~(out.datum[1].staked_at <= 0)

output_to_staking_validator(out, staking_validator_hash) ==
    /\ out.address.payment_credential.tag = "ScriptCredential"
    /\ out.address.payment_credential.credential_hash = staking_validator_hash

find_and_validate_ref_nft(outputs, policy_id, ref_name, staking_validator_hash) ==
    LET found == {i \in 1..Len(outputs) : has_token(outputs[i].value, policy_id, ref_name, 1)}
    IN  /\ \A i \in found :
            /\ output_to_staking_validator(outputs[i], staking_validator_hash)
            /\ valid_position_datum(outputs[i])
        /\ Cardinality(found) = 1

\* what the three branches begin with: the pool record and the authorising input
position_authorized(tx, redeemer) ==
    IF ~pool_config_found(tx, redeemer.pool_nft_policy, redeemer.pool_nft_name)
        THEN "Pool config not found"
    ELSE LET pool == find_pool_config(tx, redeemer.pool_nft_policy, redeemer.pool_nft_name)
             pool_validator_hash == get_pool_validator_hash_from_utxo(
                                        tx, redeemer.pool_nft_policy, redeemer.pool_nft_name) IN
    IF pool_validator_hash = Bytes(0, 0) THEN "Pool config not found"
    ELSE IF ~authorized_validator_spent(tx, pool_validator_hash, pool.staking_validator_hash)
        THEN "Pool or staking validator must authorize"
    ELSE "OK"

position_mint(tx, policy_id, redeemer) ==
    LET auth == position_authorized(tx, redeemer)
        pool == find_pool_config(tx, redeemer.pool_nft_policy, redeemer.pool_nft_name)
        minted == minted_names(tx, policy_id)
        ref_name == make_reference_name(redeemer.position_id)
        user_name == make_user_name(redeemer.position_id) IN
    IF auth # "OK" THEN auth
    ELSE IF Cardinality(minted) # 2 THEN "Must mint exactly 2 tokens"
    ELSE IF ref_name \notin minted THEN "Reference NFT name not found"
    ELSE IF user_name \notin minted THEN "User NFT name not found"
    ELSE IF tx.mint[<<policy_id, ref_name>>] # 1 THEN "Must mint 1 reference NFT"
    ELSE IF tx.mint[<<policy_id, user_name>>] # 1 THEN "Must mint 1 user NFT"
    ELSE IF ~find_and_validate_ref_nft(tx.outputs, policy_id, ref_name,
                                       pool.staking_validator_hash)
        THEN "Invalid reference NFT output"
    ELSE "OK"

\* a variant of the burn branch that does not count the entries
position_burn_uncounted(tx, policy_id, redeemer) ==
    LET auth == position_authorized(tx, redeemer)
        minted == minted_names(tx, policy_id)
        ref_name == make_reference_name(redeemer.position_id)
        user_name == make_user_name(redeemer.position_id) IN
    IF auth # "OK" THEN auth
    ELSE IF ref_name \notin minted THEN "Reference NFT not being burned"
    ELSE IF user_name \notin minted THEN "User NFT not being burned"
    ELSE IF tx.mint[<<policy_id, ref_name>>] # -1 THEN "Must burn 1 reference NFT"
    ELSE IF tx.mint[<<policy_id, user_name>>] # -1 THEN "Must burn 1 user NFT"
    ELSE "OK"

position_burn(tx, policy_id, redeemer) ==
    LET auth == position_authorized(tx, redeemer)
        minted == minted_names(tx, policy_id)
        ref_name == make_reference_name(redeemer.position_id)
        user_name == make_user_name(redeemer.position_id) IN
    IF auth # "OK" THEN auth
    ELSE IF ref_name \notin minted THEN "Reference NFT not being burned"
    ELSE IF user_name \notin minted THEN "User NFT not being burned"
    ELSE IF tx.mint[<<policy_id, ref_name>>] # -1 THEN "Must burn 1 reference NFT"
    ELSE IF tx.mint[<<policy_id, user_name>>] # -1 THEN "Must burn 1 user NFT"
    ELSE IF Cardinality(minted) # 2 THEN "Only 2 tokens should be burned"
    ELSE "OK"

position_remint(tx, policy_id, redeemer) ==
    LET auth == position_authorized(tx, redeemer)
        pool == find_pool_config(tx, redeemer.pool_nft_policy, redeemer.pool_nft_name)
        minted == minted_names(tx, policy_id)
        old_user_name == make_user_name(redeemer.old_position_id)
        new_ref_name == make_reference_name(redeemer.new_position_id)
        new_user_name == make_user_name(redeemer.new_position_id) IN
    IF auth # "OK" THEN auth
    ELSE IF Cardinality(minted) # 3 THEN "Remint must have exactly 3 token operations"
    ELSE IF old_user_name \notin minted THEN "Old user NFT must be burned"
    ELSE IF tx.mint[<<policy_id, old_user_name>>] # -1 THEN "Must burn exactly 1 old user NFT"
    ELSE IF new_ref_name \notin minted THEN "New reference NFT not found"
    ELSE IF new_user_name \notin minted THEN "New user NFT not found"
    ELSE IF tx.mint[<<policy_id, new_ref_name>>] # 1 THEN "Must mint 1 new reference NFT"
    ELSE IF tx.mint[<<policy_id, new_user_name>>] # 1 THEN "Must mint 1 new user NFT"
    ELSE IF ~find_and_validate_ref_nft(tx.outputs, policy_id, new_ref_name,
                                       pool.staking_validator_hash)
        THEN "Invalid new reference NFT output"
    ELSE "OK"

position_nft_policy(ctx) ==
    IF ctx.purpose.tag # "Minting" THEN "AssertionError"
    ELSE CASE ctx.redeemer.tag = "MintPosition" ->
                position_mint(ctx.transaction, ctx.purpose.policy_id, ctx.redeemer)
           [] ctx.redeemer.tag = "BurnPosition" ->
                position_burn(ctx.transaction, ctx.purpose.policy_id, ctx.redeemer)
           [] ctx.redeemer.tag = "RemintPosition" ->
                position_remint(ctx.transaction, ctx.purpose.policy_id, ctx.redeemer)
           [] OTHER -> "Invalid redeemer"

-----------------------------------------------------------------------------
(* The ledger: which scripts a transaction triggers, what it preserves,    *)
(* and what it leaves behind.                                              *)

TxAt(inputs, reference_inputs, outputs, mint, signatories, validity_range) ==
    [inputs |-> inputs, reference_inputs |-> reference_inputs, outputs |-> outputs,
     mint |-> mint, signatories |-> signatories, validity_range |-> validity_range]

\* a transaction that declares no validity interval is valid at any time
Always == POSIXTimeRange(NegInfPOSIXTime, PosInfPOSIXTime)

Tx(inputs, reference_inputs, outputs, mint, signatories) ==
    TxAt(inputs, reference_inputs, outputs, mint, signatories, Always)

\* the ledger's rule: a transaction is applied only within its validity interval
Contains(range, t) ==
    /\ range.lower_bound.limit.tag = "FinitePOSIXTime" => range.lower_bound.limit.time <= t
    /\ range.upper_bound.limit.tag = "FinitePOSIXTime" => t <= range.upper_bound.limit.time

EmptyTx == Tx(<< >>, << >>, << >>, EmptyValue, {})

\* the identity of the n-th transaction the ledger applies (a 32-byte hash)
TxIdOf(n) == Bytes(32, 100 + n)

\* inputs reach a script in the order of their references
RefBefore(a, b) ==
    \/ a.out_ref.id[2] < b.out_ref.id[2]
    \/ a.out_ref.id[2] = b.out_ref.id[2] /\ a.out_ref.idx < b.out_ref.idx

RECURSIVE SortInputs(_)
SortInputs(S) ==
    IF S = {} THEN << >>
    ELSE LET first == CHOOSE u \in S : \A w \in S \ {u} : RefBefore(u, w)
         IN <<first>> \o SortInputs(S \ {first})

\* the minting policies of this repository that the model runs
IdentityPolicies == {PoolNftPolicyId, AuthorityPolicyId}

\* the policies whose tokens the model follows through the ledger
FollowedPolicies == IdentityPolicies \cup {PositionPolicyId}

RECURSIVE SumOuts(_, _, _)
SumOuts(outs, asset, n) ==
    IF n = 0 THEN 0
    ELSE get_token_amount(outs[n].value, asset[1], asset[2]) + SumOuts(outs, asset, n - 1)

RECURSIVE SumIns(_, _, _)
SumIns(ins, asset, n) ==
    IF n = 0 THEN 0
    ELSE get_token_amount(ins[n].resolved.value, asset[1], asset[2])
            + SumIns(ins, asset, n - 1)

AssetsOf(tx) ==
    DOMAIN tx.mint
    \cup UNION {DOMAIN tx.inputs[i].resolved.value : i \in 1..Len(tx.inputs)}
    \cup UNION {DOMAIN tx.outputs[i].value : i \in 1..Len(tx.outputs)}

\* the ledger's rule: what goes in, plus what is minted, comes out
Preserved(tx) ==
    \A a \in {b \in AssetsOf(tx) : b[1] \in FollowedPolicies} :
        SumIns(tx.inputs, a, Len(tx.inputs))
            + (IF a \in DOMAIN tx.mint THEN tx.mint[a] ELSE 0)
        = SumOuts(tx.outputs, a, Len(tx.outputs))

IsPoolInput(u) ==
    /\ u.resolved.address.payment_credential.tag = "ScriptCredential"
    /\ u.resolved.address.payment_credential.credential_hash = PoolValidatorHash

IsStakingInput(u) ==
    /\ u.resolved.address.payment_credential.tag = "ScriptCredential"
    /\ u.resolved.address.payment_credential.credential_hash = StakingValidatorHash

\* the scripts of this repository that the ledger runs for tx
RequiredPurposes(tx) ==
    {Spending(tx.inputs[i].out_ref) :
        i \in {j \in 1..Len(tx.inputs) :
                IsPoolInput(tx.inputs[j]) \/ IsStakingInput(tx.inputs[j])}}
    \cup {Minting(p) : p \in {a[1] : a \in DOMAIN tx.mint}
                                \cap (IdentityPolicies \cup {PositionPolicyId})}

RunScript(tx, s) ==
    LET ctx == ScriptContext(tx, s.purpose, s.redeemer) IN
    IF s.purpose.tag = "Spending"
    THEN LET i == find_own_input(tx, s.purpose.tx_out_ref) IN
         IF i # 0 /\ IsPoolInput(tx.inputs[i]) THEN pool_validator(ctx)
         ELSE IF i # 0 /\ IsStakingInput(tx.inputs[i]) THEN staking_validator(ctx)
         ELSE "OK"
    ELSE IF s.purpose.policy_id = PoolNftPolicyId THEN pool_nft_policy(ctx)
    ELSE IF s.purpose.policy_id = AuthorityPolicyId THEN platform_authority_policy(ctx)
    ELSE IF s.purpose.policy_id = PositionPolicyId THEN position_nft_policy(ctx)
    ELSE "OK"

\* the failure r of the n-th script, else that of the scripts after it
RECURSIVE FirstFailure(_, _, _)
FirstFailure(tx, scripts, n) ==
    IF n > Len(scripts) THEN "OK"
    ELSE CHOOSE m \in {IF r # "OK" THEN r ELSE FirstFailure(tx, scripts, n + 1) :
                        r \in {RunScript(tx, scripts[n])}} : TRUE

\* whether output o is one the model keeps in the ledger
Followed(o) ==
    \/ o.address.payment_credential = ScriptCredential(PoolValidatorHash)
    \/ o.address.payment_credential = ScriptCredential(StakingValidatorHash)
    \/ \E a \in DOMAIN o.value : a[1] \in FollowedPolicies

\* Outputs the model does not follow (a wallet's, another script's) are drawn
\* fresh for each transaction: those the n-th transaction may spend.
EnvTxId(n) == Bytes(32, 50 + n)
EnvScriptInput(n, h) ==
    TxInInfo(TxOutRef(EnvTxId(n), h[2]), TxOut(ScriptAddress(h), EmptyValue, NoOutputDatum))
EnvKeyInput(n, h) ==
    TxInInfo(TxOutRef(EnvTxId(n), 30 + h[2]), TxOut(KeyAddress(h), EmptyValue, NoOutputDatum))
\* an output somebody holds beside the ledger the model follows, for the
\* n-th transaction to spend or to refer to
IsEnvInput(u, n) == u.out_ref.id = EnvTxId(n) /\ ~Followed(u.resolved)

\* "OK", or why the ledger does not apply the submission as its n-th
\* transaction.  First a variant that does not ask whether the inputs are
\* still unspent.
Verdict_unlocked(utxos, n, tx, scripts) ==
    IF Len(tx.inputs) = 0 THEN "No input"
    ELSE IF ~Preserved(tx) THEN "Value not preserved"
    ELSE IF \E q \in RequiredPurposes(tx) : \A i \in 1..Len(scripts) : scripts[i].purpose # q
        THEN "Missing redeemer"
    ELSE FirstFailure(tx, scripts, 1)

Verdict(utxos, n, tx, scripts) ==
    IF Len(tx.inputs) = 0 THEN "No input"
    ELSE IF \E i \in 1..Len(tx.inputs) :
                tx.inputs[i] \notin utxos /\ ~IsEnvInput(tx.inputs[i], n)
        THEN "Input already spent"
    ELSE IF \E i \in 1..Len(tx.reference_inputs) :
                /\ tx.reference_inputs[i] \notin utxos
                /\ ~IsEnvInput(tx.reference_inputs[i], n)
        THEN "Reference input already spent"
    ELSE IF ~Preserved(tx) THEN "Value not preserved"
    ELSE IF \E q \in RequiredPurposes(tx) : \A i \in 1..Len(scripts) : scripts[i].purpose # q
        THEN "Missing redeemer"
    ELSE FirstFailure(tx, scripts, 1)

\* the ledger after tx, the n-th transaction applied
Apply(utxos, tx, n) ==
    (utxos \ {tx.inputs[i] : i \in 1..Len(tx.inputs)})
    \cup {TxInInfo(TxOutRef(TxIdOf(n), i - 1), tx.outputs[i]) :
            i \in {j \in 1..Len(tx.outputs) : Followed(tx.outputs[j])}}

\* the assets tx mints (quantity above 0)
MintedBy(tx) == {a \in DOMAIN tx.mint : tx.mint[a] > 0}

Supplied(sup, tx) ==
    [a \in DOMAIN sup \cup MintedBy(tx) |->
        (IF a \in DOMAIN sup THEN sup[a] ELSE 0)
        + (IF a \in MintedBy(tx) THEN tx.mint[a] ELSE 0)]

\* the pool identities that tx pauses with PausePool(1)
PausedBy(tx, scripts) ==
    {<<tx.inputs[i].resolved.datum[1].pool_nft_policy,
       tx.inputs[i].resolved.datum[1].pool_nft_name>> :
        i \in {j \in 1..Len(tx.inputs) :
                \E k \in 1..Len(scripts) :
                    /\ scripts[k].purpose = Spending(tx.inputs[j].out_ref)
                    /\ scripts[k].redeemer = PausePool(1)
                    /\ IsPoolInput(tx.inputs[j])
                    /\ IsSomeOutputDatum(tx.inputs[j].resolved.datum)}}

\* the pool records that tx creates with the Pool Identity Mint
CreatedBy(tx, scripts) ==
    {tx.outputs[scripts[k].redeemer.output_index + 1].datum[1] :
        k \in {j \in 1..Len(scripts) :
                /\ scripts[j].purpose = Minting(PoolNftPolicyId)
                /\ scripts[j].redeemer.tag = "Mint"}}

NoSubmission == [tx |-> EmptyTx, scripts |-> << >>]

\* the transaction the ledger applied last, with its scripts
applied ==
    IF phase = "accepted" THEN [tx |-> verdict.tx, scripts |-> verdict.scripts]
    ELSE NoSubmission

\* the submitter is between transactions, and the model's bound is not reached
Ready == phase = "idle" /\ ntx < MaxTx

\* One submission, reaching the ledger at time t: the ledger applies it
\* whole or not at all.
SubmitAt(p, t) ==
    \E v \in {IF ~Contains(p.tx.validity_range, t) THEN "Outside validity interval"
              ELSE Verdict(ledger, ntx + 1, p.tx, p.scripts)} :
    /\ verdict' = [msg |-> v, tx |-> p.tx, scripts |-> p.scripts]
    /\ IF v = "OK"
       THEN /\ phase' = "accepted"
            /\ ledger' = Apply(ledger, p.tx, ntx + 1)
            /\ supply' = Supplied(supply, p.tx)
            /\ pause_log' = pause_log \cup PausedBy(p.tx, p.scripts)
            /\ created' = created \cup CreatedBy(p.tx, p.scripts)
            /\ ntx' = ntx + 1
            /\ clock' = t
            /\ consumed' = consumed
                    \cup (ledger \cap {p.tx.inputs[i] : i \in 1..Len(p.tx.inputs)})
       ELSE /\ phase' = "rejected"
            /\ UNCHANGED <<ledger, supply, pause_log, created, ntx, clock, consumed>>

\* a submission that reaches the ledger with no time passed
Submit(p) == SubmitAt(p, clock)

\* The submitter turns to the next transaction.  A rejected submission left
\* the ledger as it was: what follows it is what follows the state before it.
NextTransaction ==
    /\ phase = "accepted"
    /\ phase' = "idle"
    /\ verdict' = [msg |-> "", tx |-> EmptyTx, scripts |-> << >>]
    /\ UNCHANGED <<ledger, supply, pause_log, created, ntx, clock, consumed>>


-----------------------------------------------------------------------------
(* The transactions submitted against a pool output.  Every shape varies   *)
(* what the validator reads: who signs, what is spent beside the pool, the *)
(* continuing output (where it sits, its record, its balances), the fee    *)
(* output and the mint.                                                    *)

\* record d with field f changed ("none": unchanged)
Tamper(d, f) ==
    IF f = "none" THEN d
    ELSE [d EXCEPT ![f] = IF f \in PoolIntFields THEN @ + 1 ELSE Other(@)]

SignerSets == {{}, {UserPkh}, {OwnerPkh}, {OwnerPkh, UserPkh}, {UserPkh, FeePkh, CreatorPkh}}

\* what is spent beside the pool output: nothing, an output at a script
\* address, an output at a key address with the staking validator's hash, or
\* another output at the pool validator's address (under the same redeemer)
CoSpends(utxos, u, n) ==
    {{}} \cup {{EnvScriptInput(n, h)} : h \in {StakingHashA, StakingHashB}}
         \cup {{EnvKeyInput(n, h)} : h \in {StakingHashA, StakingHashB}}
         \cup {{w} : w \in {x \in utxos : IsPoolInput(x)} \ {u}}

ContVariants ==
    {[place |-> "same", tamper |-> f, datum |-> TRUE] : f \in PoolFields \cup {"none"}}
    \cup {[place |-> "same", tamper |-> "none", datum |-> FALSE]}
    \cup {[place |-> pl, tamper |-> "none", datum |-> TRUE] : pl \in {"stk", "foreign", "none"}}
GoodCont == [place |-> "same", tamper |-> "none", datum |-> TRUE]

FeeVariants ==
    {[amount |-> 0, to |-> "key", token |-> "stake"]}
    \cup {[amount |-> a, to |-> t[1], token |-> t[2]] :
            a \in 1..2,
            t \in {<<"key", "stake">>, <<"key", "reward">>,
                   <<"otherkey", "stake">>, <<"script", "stake">>}}

\* how far the continuing balances are from the redeemer's natural effect
ValueVariants ==
    {[ds |-> 0, dr |-> 0], [ds |-> 1, dr |-> 0], [ds |-> -1, dr |-> 0],
     [ds |-> 0, dr |-> 1], [ds |-> 0, dr |-> -1]}
GoodValue == [ds |-> 0, dr |-> 0]

MintVariants == {0, -1, -2}

PoolOutputs(utxos) == {u \in utxos : IsPoolInput(u)}

\* the record a submitter works from: the input's, or one made up for an
\* input that carries none
RecordOf(u) ==
    IF IsSomeOutputDatum(u.resolved.datum) THEN u.resolved.datum[1]
    ELSE PoolDatum(Bytes(32, 99), 500, 2, 0, StakingHashA, 0, 0)

\* the record the redeemer asks for
Expected(d, r) ==
    CASE r.tag = "Stake" -> [d EXCEPT !.total_staked = @ + r.amount]
      [] r.tag = "Unstake" -> [d EXCEPT !.total_staked = @ - r.amount]
      [] r.tag = "UpdatePool" -> [d EXCEPT !.yield_rate = r.new_yield_rate]
      [] r.tag = "PausePool" -> [d EXCEPT !.paused = r.pause]
      [] OTHER -> d

\* the redeemer's natural effect on the pool's <<stake, reward>> balances
Effect(r) ==
    CASE r.tag = "Stake" -> <<r.amount, 0>>
      [] r.tag = "Unstake" -> <<0 - r.amount, 0>>
      [] r.tag = "Claim" -> <<0, -1>>
      [] r.tag = "FundTreasury" -> <<0, r.amount>>
      [] r.tag = "WithdrawTreasury" -> <<0, 0 - r.amount>>
      [] OTHER -> <<0, 0>>

PoolValue(d, nft, stake, reward) ==
    Val({t \in {<<d.pool_nft_policy, d.pool_nft_name, nft>>,
                <<d.stake_token_policy, d.stake_token_name, stake>>,
                <<d.reward_token_policy, d.reward_token_name, reward>>} : t[3] > 0})

PlaceOf(u, place) ==
    CASE place = "same" -> u.resolved.address
      [] place = "stk" -> Address(u.resolved.address.payment_credential, 1)
      [] place = "foreign" -> ScriptAddress(ForeignScriptHash)
      [] OTHER -> KeyAddress(OwnerPkh)

FeeOutput(d, fv) ==
    TxOut(CASE fv.to = "key" -> KeyAddress(d.platform_fee_pkh)
            [] fv.to = "otherkey" -> KeyAddress(UserPkh)
            [] OTHER -> ScriptAddress(d.platform_fee_pkh),
          IF fv.token = "stake"
            THEN Val({<<d.stake_token_policy, d.stake_token_name, fv.amount>>})
            ELSE Val({<<d.reward_token_policy, d.reward_token_name, fv.amount>>}),
          NoOutputDatum)

\* the transaction spending pool output u with redeemer r in shape s
PoolTx(u, r, s, n) ==
    LET d == RecordOf(u)
        nft == get_token_amount(u.resolved.value, d.pool_nft_policy, d.pool_nft_name)
        left == nft + s.mint
        stake == get_token_amount(u.resolved.value, d.stake_token_policy, d.stake_token_name)
                    + Effect(r)[1] + s.cv.ds
        reward == get_token_amount(u.resolved.value, d.reward_token_policy, d.reward_token_name)
                    + Effect(r)[2] + s.cv.dr
        record == IF s.cv.datum THEN SomeOutputDatum(Tamper(Expected(d, r), s.cv.tamper))
                  ELSE NoOutputDatum
        cont == IF s.cv.place = "none" /\ left <= 0 THEN << >>
                ELSE <<TxOut(PlaceOf(u, s.cv.place),
                             PoolValue(d, left, stake, reward), record)>>
        fee == IF s.fv.amount = 0 THEN << >> ELSE <<FeeOutput(d, s.fv)>>
    IN  Tx(SortInputs({u} \cup s.cs), << >>, cont \o fee,
           IF s.mint = 0 THEN EmptyValue
           ELSE Val({<<d.pool_nft_policy, d.pool_nft_name, s.mint>>}),
           s.sig)

PoolScripts(u, r, s) ==
    <<[purpose |-> Spending(u.out_ref), redeemer |-> r]>>
    \o [i \in 1..Len(SortInputs({w \in s.cs : IsPoolInput(w)})) |->
            [purpose |-> Spending(SortInputs({w \in s.cs : IsPoolInput(w)})[i].out_ref),
             redeemer |-> r]]
    \o (IF s.mint = 0 THEN << >>
        ELSE <<[purpose |-> Minting(RecordOf(u).pool_nft_policy), redeemer |-> Burn]>>)

Shape(sig, cs, cv, vv, fv, mint) ==
    [sig |-> sig, cs |-> cs,
     cv |-> [place |-> cv.place, tamper |-> cv.tamper, datum |-> cv.datum,
             ds |-> vv.ds, dr |-> vv.dr],
     fv |-> fv, mint |-> mint]

\* balances never go below zero
Payable(u, r, s) ==
    LET d == RecordOf(u) IN
    /\ get_token_amount(u.resolved.value, d.stake_token_policy, d.stake_token_name)
            + Effect(r)[1] + s.cv.ds >= 0
    /\ get_token_amount(u.resolved.value, d.reward_token_policy, d.reward_token_name)
            + Effect(r)[2] + s.cv.dr >= 0

SubmitPool(u, r, s) ==
    /\ Payable(u, r, s)
    /\ \E p \in {[tx |-> PoolTx(u, r, s, ntx + 1), scripts |-> PoolScripts(u, r, s)]} :
            Submit(p)


GoodMint(r) == IF r.tag = "ClosePool" THEN -1 ELSE 0
GoodContOf(r) ==
    IF r.tag = "ClosePool" THEN [place |-> "none", tamper |-> "none", datum |-> TRUE]
    ELSE GoodCont
GoodFee(r) ==
    [amount |-> 2, to |-> "key",
     token |-> IF r.tag = "FundTreasury" THEN "reward" ELSE "stake"]
\* an output at the staking validator the record names, when the model can
\* draw one (the outputs at the compiled staking validator are in the ledger)
GoodCoSpend(u, n) ==
    IF RecordOf(u).staking_validator_hash = StakingValidatorHash THEN {}
    ELSE {EnvScriptInput(n, RecordOf(u).staking_validator_hash)}

\* the redeemers whose branch reads the signers beside the co-spent inputs,
\* the pool's balances, the fee output, the mint
ReadsCoSpend == {"Unstake", "Claim"}
MovesStake == {"Stake", "Unstake"}
MovesReward == {"Claim", "FundTreasury", "WithdrawTreasury"}
ReadsFee == {"Stake", "FundTreasury"}
ReadsMint == {"ClosePool", "PausePool"}

\* continuing balances one below the spent input's, in the token the
\* redeemer's branch does not measure
Drains(r) ==
    {[ds |-> 0 - Effect(r)[1] - 1, dr |-> 0] : t \in {r.tag} \ {"Unstake", "ClosePool"}}
    \cup {[ds |-> 0, dr |-> 0 - Effect(r)[2] - 1] :
            t \in {r.tag} \ (MovesReward \cup {"ClosePool"})}

\* the shapes tried for redeemer r on pool output u, each varying one thing
\* the branch reads: the signers, the co-spent input (with every signer set
\* where the branch asks for one), the continuing output, the balances, the
\* fee, the mint, the balance the branch leaves unmeasured
Shapes(utxos, u, r, n) ==
    {Shape(sig, GoodCoSpend(u, n), GoodContOf(r), GoodValue, GoodFee(r), GoodMint(r)) :
        sig \in SignerSets}
    \cup {Shape(sig, cs, GoodContOf(r), GoodValue, GoodFee(r), GoodMint(r)) :
        sig \in IF r.tag \in ReadsCoSpend THEN SignerSets ELSE {{OwnerPkh}},
        cs \in CoSpends(utxos, u, n)}
    \cup {Shape({OwnerPkh}, GoodCoSpend(u, n), cv, GoodValue, GoodFee(r), GoodMint(r)) :
        cv \in ContVariants}
    \cup {Shape({OwnerPkh}, GoodCoSpend(u, n), GoodContOf(r), vv, GoodFee(r), GoodMint(r)) :
        vv \in {v \in ValueVariants :
                    /\ v.ds # 0 => r.tag \in MovesStake
                    /\ v.dr # 0 => r.tag \in MovesReward}}
    \cup {Shape(IF r.tag = "Stake" THEN {UserPkh} ELSE {OwnerPkh},
                 IF r.tag \in ReadsCoSpend THEN GoodCoSpend(u, n) ELSE {},
                 GoodContOf(r), vv, GoodFee(r), GoodMint(r)) :
        vv \in Drains(r)}
    \cup {Shape({OwnerPkh}, GoodCoSpend(u, n), GoodContOf(r), GoodValue, fv, GoodMint(r)) :
        fv \in IF r.tag \in ReadsFee THEN FeeVariants ELSE {GoodFee(r)}}
    \cup {Shape({OwnerPkh}, GoodCoSpend(u, n), GoodContOf(r), GoodValue, GoodFee(r), m) :
        m \in IF r.tag \in ReadsMint THEN MintVariants ELSE {GoodMint(r)}}

YieldRates == {0, 500, MaxYieldRate, MaxYieldRate + 1}
PauseFlags == {0, 1, 2}

-----------------------------------------------------------------------------
(* The actions of the Pool State Machine: one per redeemer *)

SubmitStake ==
    /\ Ready
    /\ \E u \in PoolOutputs(ledger), a \in 0..MaxAmount :
        \E s \in Shapes(ledger, u, Stake(a), ntx + 1) : SubmitPool(u, Stake(a), s)

SubmitUnstake ==
    /\ Ready
    /\ \E u \in PoolOutputs(ledger), a \in 0..MaxAmount :
        \E s \in Shapes(ledger, u, Unstake(a), ntx + 1) : SubmitPool(u, Unstake(a), s)

SubmitClaim ==
    /\ Ready
    /\ \E u \in PoolOutputs(ledger) :
        \E s \in Shapes(ledger, u, Claim, ntx + 1) : SubmitPool(u, Claim, s)

SubmitUpdatePool ==
    /\ Ready
    /\ \E u \in PoolOutputs(ledger), y \in YieldRates :
        \E s \in Shapes(ledger, u, UpdatePool(y), ntx + 1) : SubmitPool(u, UpdatePool(y), s)

SubmitClosePool ==
    /\ Ready
    /\ \E u \in PoolOutputs(ledger) :
        \E s \in Shapes(ledger, u, ClosePool, ntx + 1) : SubmitPool(u, ClosePool, s)

SubmitFundTreasury ==
    /\ Ready
    /\ \E u \in PoolOutputs(ledger), a \in 0..MaxAmount :
        \E s \in Shapes(ledger, u, FundTreasury(a), ntx + 1) : SubmitPool(u, FundTreasury(a), s)

SubmitWithdrawTreasury ==
    /\ Ready
    /\ \E u \in PoolOutputs(ledger), a \in 0..MaxAmount :
        \E s \in Shapes(ledger, u, WithdrawTreasury(a), ntx + 1) :
            SubmitPool(u, WithdrawTreasury(a), s)

SubmitPausePool ==
    /\ Ready
    /\ \E u \in PoolOutputs(ledger), f \in PauseFlags :
        \E s \in Shapes(ledger, u, PausePool(f), ntx + 1) : SubmitPool(u, PausePool(f), s)

\* Anyone may pay an output to the pool validator's address, with a record of
\* their choosing; they hold no pool identity token to put in it.  The model
\* follows one such output at a time.
ForgedOutputs(utxos) ==
    {TxOut(ScriptAddress(PoolValidatorHash), EmptyValue, dm) :
        dm \in {NoOutputDatum} \cup
               {SomeOutputDatum(RecordOf(u)) : u \in PoolOutputs(utxos)}}

SubmitPayment ==
    /\ Ready
    /\ \E o \in ForgedOutputs(ledger) :
        /\ \A u \in PoolOutputs(ledger) : u.resolved.value # EmptyValue
        /\ Submit([tx |-> Tx(<<EnvKeyInput(ntx + 1, UserPkh)>>, << >>, <<o>>,
                             EmptyValue, {UserPkh}),
                   scripts |-> << >>])

-----------------------------------------------------------------------------
(* The pool as the Pool Identity mint leaves it *)

Seed(i, n) == TxInInfo(TxOutRef(Bytes(32, i), n), TxOut(KeyAddress(CreatorPkh), EmptyValue, NoOutputDatum))

AuthorityName == sha2_256(Bytes(32, 1))
AuthorityOutput ==
    TxInInfo(TxOutRef(Bytes(32, 2), 0),
             TxOut(KeyAddress(AdminPkh),
                   Val({<<AuthorityPolicyId, AuthorityName, 1>>}),
                   SomeOutputDatum(PlatformAuthorityDatum(CreatorPkh, AdminPkh,
                                        AuthorityPolicyId, AuthorityName))))

\* the transaction that creates a pool from record d at script address h
CreationTx(seed, d, h, refs, sigs, index) ==
    Tx(<<seed>>, refs,
       <<TxOut(ScriptAddress(h),
               Val({<<PoolNftPolicyId, d.pool_nft_name, 1>>}), SomeOutputDatum(d))>>,
       Val({<<PoolNftPolicyId, d.pool_nft_name, 1>>}), sigs)

\* the pools created: <<min_stake, staking validator, deposit_fee_bps, paused>>
CreatedPools ==
    {<<2, StakingHashA, 0, 0>>, <<2, StakingHashA, 5000, 0>>,
     <<2, StakingHashB, 5000, 0>>, <<1, StakingHashB, 5000, 1>>,
     <<2, StakingHashA, 0, 2>>}

InitPool ==
    \E c \in CreatedPools :
        LET seed == Seed(3, 0)
            d == PoolDatum(sha2_256(seed.out_ref.id), 500, c[1], 0, c[2], c[3], c[4])
            tx == CreationTx(seed, d, PoolValidatorHash, <<AuthorityOutput>>,
                             {CreatorPkh}, 0)
            scripts == <<[purpose |-> Minting(PoolNftPolicyId),
                          redeemer |-> Mint(0, PoolValidatorHash,
                                            AuthorityPolicyId, AuthorityName)]>>
        IN  /\ Verdict({seed, AuthorityOutput}, 0, tx, scripts) = "OK"
            /\ ledger = Apply({seed, AuthorityOutput}, tx, 0) \ {AuthorityOutput}
            /\ supply = Supplied(Val({<<AuthorityPolicyId, AuthorityName, 1>>}), tx)
            /\ created = CreatedBy(tx, scripts)
    /\ verdict = [msg |-> "", tx |-> EmptyTx, scripts |-> << >>]
    /\ phase = "idle"
    /\ pause_log = {}
    /\ ntx = 0
    /\ clock = 0
    /\ consumed = {}

NextPool ==
    \/ SubmitStake
    \/ SubmitUnstake
    \/ SubmitClaim
    \/ SubmitUpdatePool
    \/ SubmitClosePool
    \/ SubmitFundTreasury
    \/ SubmitWithdrawTreasury
    \/ SubmitPausePool
    \/ SubmitPayment
    \/ NextTransaction

SpecPool == InitPool /\ [][NextPool]_vars



-----------------------------------------------------------------------------
(* The transactions submitted against a position output at the staking     *)
(* validator.  Every shape varies what the validator reads: who signs,     *)
(* whether the pool is referred to, where the position token goes and with *)
(* which record, the user token, the fee output and the validity interval. *)


PositionId == Bytes(32, 7)

\* the instants at which the model lets a transaction reach the ledger
StartTime == 10 * MsPerDay
Instants ==
    {StartTime, StartTime + MsPerDay - 1, StartTime + MsPerDay, StartTime + 2 * MsPerDay}
Later == {t \in Instants : t >= clock}

\* the validity interval a submitter declares for a transaction reaching the
\* ledger at time t
RangeKinds == {"tight", "ahead", "wide", "nolower", "noupper", "none"}
RangeAt(kind, t) ==
    CASE kind = "tight" ->
            POSIXTimeRange(FinitePOSIXTime(t - MaxWindowMs), FinitePOSIXTime(t))
      [] kind = "ahead" ->
            POSIXTimeRange(FinitePOSIXTime(t), FinitePOSIXTime(t + MaxWindowMs))
      [] kind = "wide" ->
            POSIXTimeRange(FinitePOSIXTime(t), FinitePOSIXTime(t + MaxWindowMs + 100000))
      [] kind = "nolower" -> POSIXTimeRange(NegInfPOSIXTime, FinitePOSIXTime(t))
      [] kind = "noupper" -> POSIXTimeRange(FinitePOSIXTime(t), PosInfPOSIXTime)
      [] OTHER -> Always

PositionOutputs(utxos) == {u \in utxos : IsStakingInput(u)}

\* the record a submitter works from: the input's, or one made up for an
\* input that carries none
PositionRecordOf(u) ==
    IF IsSomeOutputDatum(u.resolved.datum) THEN u.resolved.datum[1]
    ELSE UserPositionDatum(PoolNftPolicyId, Bytes(32, 99), UserPkh,
                           make_reference_name(PositionId), 1000, StartTime, StartTime, 0)

\* the outputs that hold the pool identity a position record names
PoolsOf(utxos, d) ==
    {w \in utxos : has_nft(w.resolved.value, d.pool_nft_policy, d.pool_nft_name)}

\* the wallet outputs that hold the user token of the pair
WalletsOf(utxos) ==
    {w \in utxos :
        /\ w.resolved.address.payment_credential.tag = "PubKeyCredential"
        /\ has_nft(w.resolved.value, PositionPolicyId, make_user_name(PositionId))}

\* position record d with field f changed ("none": unchanged; "rewrite": the
\* record a holder writes when nothing reads the output, here a negative
\* stake with a last_claim two days after StartTime)
TamperPosition(d, f) ==
    IF f = "none" THEN d
    ELSE IF f = "rewrite"
    THEN [d EXCEPT !.stake_amount = 0 - @, !.last_claim = StartTime + 2 * MsPerDay]
    ELSE [d EXCEPT ![f] = IF f \in PositionIntFields THEN @ + 1 ELSE Other(@)]

\* what the submitter computes from the pool record, the spent record and the
\* declared interval
NowOf(range) == range.upper_bound.limit.time
RewardOf(d, pool, range) ==
    calculate_rewards(d.stake_amount, pool.yield_rate, d.last_claim, NowOf(range))
FeeBase(d, pool, r, range) ==
    CASE r.tag = "Register" -> r.initial_deposit
      [] r.tag = "Deposit" -> r.amount
      [] r.tag = "Compound" -> RewardOf(d, pool, range)
      [] OTHER -> 0
FeeOwed(d, pool, r, range) == calculate_fee(FeeBase(d, pool, r, range), pool.deposit_fee_bps)

\* the record the redeemer asks for
ExpectedPosition(d, pool, r, range) ==
    CASE r.tag = "Deposit" ->
            [d EXCEPT !.stake_amount = @ + r.amount - FeeOwed(d, pool, r, range)]
      [] r.tag = "Claim" ->
            [d EXCEPT !.last_claim = NowOf(range),
                      !.total_claimed = @ + RewardOf(d, pool, range)]
      [] r.tag = "Compound" ->
            [d EXCEPT !.stake_amount = @ + RewardOf(d, pool, range)
                                         - FeeOwed(d, pool, r, range),
                      !.last_claim = NowOf(range),
                      !.total_claimed = @ + RewardOf(d, pool, range)]
      [] OTHER -> d

\* where the position token goes
Places == {"same", "stk", "foreign", "burn", "burnkey", "wallet"}
PositionPlace(u, pool, place) ==
    CASE place = "same" -> u.resolved.address
      [] place = "stk" -> Address(u.resolved.address.payment_credential, 1)
      [] place = "foreign" -> ScriptAddress(ForeignScriptHash)
      [] place = "burn" -> ScriptAddress(pool.burn_address_hash)
      [] place = "burnkey" -> KeyAddress(pool.burn_address_hash)
      [] OTHER -> KeyAddress(UserPkh)

PositionFee(pool, r, fv) ==
    [amount |-> fv.amount, to |-> fv.to,
     token |-> IF (r.tag = "Compound") = (fv.token = "own") THEN "reward" ELSE "stake"]

\* the transaction spending position output u with redeemer r in shape s,
\* reaching the ledger at time t
PositionTx(utxos, u, r, s, t) ==
    LET d == PositionRecordOf(u)
        pools == PoolsOf(utxos, d)
        pool == IF pools = {} THEN DummyPoolDatum
                ELSE (CHOOSE w \in pools : TRUE).resolved.datum[1]
        range == RangeAt(s.range, t)
        wallets == IF s.user = "absent" THEN {} ELSE WalletsOf(utxos)
        userName == make_user_name(PositionId)
        userUnits == IF wallets = {} THEN 0 ELSE 1
        record == IF s.datum
                  THEN SomeOutputDatum(TamperPosition(ExpectedPosition(d, pool, r, range),
                                                      s.tamper))
                  ELSE NoOutputDatum
        carried == [a \in {b \in DOMAIN u.resolved.value : s.to = "same" \/ b[1] = PositionPolicyId}
                        |-> u.resolved.value[a]]
        together == s.user = "burn" /\ s.to = "burn"
        main == <<TxOut(PositionPlace(u, pool, s.to),
                        IF together /\ userUnits > 0
                        THEN [a \in DOMAIN carried \cup {<<PositionPolicyId, userName>>} |->
                                IF a \in DOMAIN carried THEN carried[a] ELSE 1]
                        ELSE carried,
                        record)>>
        user == IF userUnits = 0 \/ together THEN << >>
                ELSE <<TxOut(IF s.user = "burn" THEN ScriptAddress(pool.burn_address_hash)
                             ELSE KeyAddress(UserPkh),
                             Val({<<PositionPolicyId, userName, 1>>}), NoOutputDatum)>>
        fee == IF s.fv.amount = 0 THEN << >>
               ELSE <<FeeOutput(pool, PositionFee(pool, r, s.fv))>>
    IN  TxAt(SortInputs({u} \cup wallets),
             IF s.ref THEN SortInputs(pools) ELSE << >>,
             main \o user \o fee, EmptyValue, s.sig, range)

PositionScripts(u, r) == <<[purpose |-> Spending(u.out_ref), redeemer |-> r]>>

SubmitPosition(u, r, s, t) ==
    \E p \in {[tx |-> PositionTx(ledger, u, r, s, t), scripts |-> PositionScripts(u, r)]} :
        SubmitAt(p, t)

PositionSigners == {{}, {UserPkh}, {OwnerPkh}, {OwnerPkh, FeePkh, CreatorPkh}}

\* the redeemers whose branch reads a continuing output, the fee output, the
\* validity interval
ReadsContinuing == {"Deposit", "Claim", "Compound"}
ReadsPositionFee == {"Register", "Deposit", "Compound"}
ReadsTime == {"Register", "Claim", "Compound"}

GoodPlace(r) == IF r.tag = "Withdraw" THEN "burn" ELSE "same"
GoodUser(r) == IF r.tag = "Withdraw" THEN "burn" ELSE "absent"

PositionShape(sig, ref, to, datum, tamper, user, fv, range) ==
    [sig |-> sig, ref |-> ref, to |-> to, datum |-> datum, tamper |-> tamper,
     user |-> user, fv |-> fv, range |-> range]

\* the fee outputs tried when fee is owed: the fee or one unit less, to the
\* platform's key in the branch's token or the other one, to another key,
\* to a script
PositionFeeVariants(fee) ==
    {[amount |-> 0, to |-> "key", token |-> "own"]}
    \cup {[amount |-> a, to |-> k[1], token |-> k[2]] :
            a \in {x \in {fee - 1, fee} : x > 0},
            k \in {<<"key", "own">>, <<"key", "other">>,
                   <<"otherkey", "own">>, <<"script", "own">>}}

\* the shapes tried for redeemer r on position output u at time t, each
\* varying one thing the branch reads
PositionShapes(utxos, u, r, t) ==
    LET d == PositionRecordOf(u)
        pools == PoolsOf(utxos, d)
        pool == IF pools = {} THEN DummyPoolDatum
                ELSE (CHOOSE w \in pools : TRUE).resolved.datum[1]
        fee == FeeOwed(d, pool, r, RangeAt("tight", t))
        goodFee == [amount |-> fee, to |-> "key", token |-> "own"]
        Good(sig, ref, to, datum, tamper, user, fv, range) ==
            PositionShape(sig, ref, to, datum, tamper, user, fv, range)
    IN  {Good(sig, TRUE, GoodPlace(r), TRUE, "none", GoodUser(r), goodFee, "tight") :
            sig \in PositionSigners}
        \cup {Good({UserPkh}, FALSE, GoodPlace(r), TRUE, "none", GoodUser(r), goodFee, "tight")}
        \cup {Good({UserPkh}, TRUE, to, TRUE, "none", GoodUser(r), goodFee, "tight") :
                to \in Places}
        \cup {Good({UserPkh}, TRUE, GoodPlace(r), FALSE, "none", GoodUser(r), goodFee, "tight")}
        \cup {Good({UserPkh}, TRUE, GoodPlace(r), TRUE, f, GoodUser(r), goodFee, "tight") :
                f \in IF r.tag \in ReadsContinuing THEN PositionFields
                       ELSE IF r.tag = "Register" THEN {"rewrite"}
                       ELSE {"none"}}
        \cup {Good({UserPkh}, TRUE, GoodPlace(r), TRUE, "none", us, goodFee, "tight") :
                us \in IF r.tag = "Withdraw" THEN {"absent", "burn", "wallet"}
                       ELSE {GoodUser(r)}}
        \cup {Good({UserPkh}, TRUE, GoodPlace(r), TRUE, "none", GoodUser(r), fv, "tight") :
                fv \in IF r.tag \in ReadsPositionFee THEN PositionFeeVariants(fee)
                       ELSE {goodFee}}
        \cup {Good({UserPkh}, TRUE, GoodPlace(r), TRUE, "none", GoodUser(r), goodFee, k) :
                k \in IF r.tag \in ReadsTime THEN RangeKinds ELSE {"tight"}}

Positions(utxos) == PositionOutputs(utxos)

RegisterAmounts(u) == {1, 700, PositionRecordOf(u).stake_amount}
DepositAmounts == {0, 2, 1000}
WithdrawAmounts(u) == {0, -1, 1, PositionRecordOf(u).stake_amount + 1}

-----------------------------------------------------------------------------
(* The actions of the User Position State Machine: one per redeemer *)

SubmitRegister ==
    /\ Ready
    /\ \E u \in Positions(ledger), t \in Later :
        \E a \in RegisterAmounts(u) :
            \E s \in PositionShapes(ledger, u, Register(a), t) :
                SubmitPosition(u, Register(a), s, t)

SubmitDeposit ==
    /\ Ready
    /\ \E u \in Positions(ledger), a \in DepositAmounts, t \in Later :
        \E s \in PositionShapes(ledger, u, Deposit(a), t) :
            SubmitPosition(u, Deposit(a), s, t)

SubmitWithdraw ==
    /\ Ready
    /\ \E u \in Positions(ledger) :
        \E a \in WithdrawAmounts(u) :
            \E s \in PositionShapes(ledger, u, Withdraw(a), clock) :
                SubmitPosition(u, Withdraw(a), s, clock)

SubmitPositionClaim ==
    /\ Ready
    /\ \E u \in Positions(ledger), t \in Later :
        \E s \in PositionShapes(ledger, u, Claim, t) : SubmitPosition(u, Claim, s, t)

SubmitCompound ==
    /\ Ready
    /\ \E u \in Positions(ledger), t \in Later :
        \E s \in PositionShapes(ledger, u, Compound, t) : SubmitPosition(u, Compound, s, t)

\* Anyone may pay an output to the staking validator's address, with a record
\* of their choosing; they hold no position token to put in it.  The model
\* follows one such output at a time.
ForgedPositions(utxos) ==
    {TxOut(ScriptAddress(StakingValidatorHash), EmptyValue, dm) :
        dm \in {NoOutputDatum} \cup
               {SomeOutputDatum(d) :
                    d \in UNION {{PositionRecordOf(u),
                                  [PositionRecordOf(u) EXCEPT !.stake_amount = 0],
                                  [PositionRecordOf(u) EXCEPT !.total_claimed = 1],
                                  [PositionRecordOf(u) EXCEPT
                                        !.staked_at = StartTime + 3 * MsPerDay,
                                        !.last_claim = StartTime + 3 * MsPerDay]} :
                                 u \in Positions(utxos)}}}

SubmitPositionPayment ==
    /\ Ready
    /\ \E o \in ForgedPositions(ledger) :
        /\ \A u \in PositionOutputs(ledger) : u.resolved.value # EmptyValue
        /\ Submit([tx |-> Tx(<<EnvKeyInput(ntx + 1, UserPkh)>>, << >>, <<o>>,
                             EmptyValue, {UserPkh}),
                   scripts |-> << >>])

-----------------------------------------------------------------------------
(* A pool with one position registered against it *)

\* the pools: <<yield_rate, min_stake, deposit_fee_bps, paused>>
PositionPools ==
    {<<MaxYieldRate, 500, 100, 0>>, <<MaxYieldRate, 2, 5000, 0>>, <<500, 2, 5000, 1>>}

InitPosition ==
    \E c \in PositionPools :
        LET pd == PoolDatum(sha2_256(Bytes(32, 3)), c[1], c[2], 1000,
                            StakingValidatorHash, c[3], c[4])
            pool == TxInInfo(TxOutRef(Bytes(32, 4), 0),
                             TxOut(ScriptAddress(PoolValidatorHash),
                                   PoolValue(pd, 1, 1000, 3), SomeOutputDatum(pd)))
            refName == make_reference_name(PositionId)
            userName == make_user_name(PositionId)
            position ==
                TxInInfo(TxOutRef(Bytes(32, 9), 0),
                         TxOut(ScriptAddress(StakingValidatorHash),
                               Val({<<PositionPolicyId, refName, 1>>,
                                    <<StakeTokenPolicy, StakeTokenName, 1000>>}),
                               SomeOutputDatum(UserPositionDatum(
                                    pd.pool_nft_policy, pd.pool_nft_name, UserPkh,
                                    refName, 1000, StartTime, StartTime, 0))))
            wallet == TxInInfo(TxOutRef(Bytes(32, 9), 1),
                               TxOut(KeyAddress(UserPkh),
                                     Val({<<PositionPolicyId, userName, 1>>}),
                                     NoOutputDatum))
        IN  /\ ledger = {pool, position, wallet}
            /\ supply = Val({<<pd.pool_nft_policy, pd.pool_nft_name, 1>>,
                             <<PositionPolicyId, refName, 1>>,
                             <<PositionPolicyId, userName, 1>>})
            /\ created = {[pd EXCEPT !.total_staked = 0, !.paused = 0]}
            /\ pause_log = IF c[4] = 1 THEN {<<pd.pool_nft_policy, pd.pool_nft_name>>}
                           ELSE {}
    /\ verdict = [msg |-> "", tx |-> EmptyTx, scripts |-> << >>]
    /\ phase = "idle"
    /\ ntx = 0
    /\ clock = StartTime
    /\ consumed = {}

NextPosition ==
    \/ SubmitRegister
    \/ SubmitDeposit
    \/ SubmitWithdraw
    \/ SubmitPositionClaim
    \/ SubmitCompound
    \/ SubmitPositionPayment
    \/ SubmitStake
    \/ SubmitPausePool
    \/ NextTransaction

SpecPosition == InitPosition /\ [][NextPosition]_vars

-----------------------------------------------------------------------------
(* What the properties read from the last submission *)

\* the pool inputs the applied transaction spends, each with its redeemer
Spent ==
    {[input |-> applied.tx.inputs[i], redeemer |-> applied.scripts[k].redeemer] :
        i \in 1..Len(applied.tx.inputs), k \in 1..Len(applied.scripts)}
    \cap {e \in [input : {applied.tx.inputs[i] : i \in 1..Len(applied.tx.inputs)},
                 redeemer : {applied.scripts[k].redeemer : k \in 1..Len(applied.scripts)}] :
            /\ IsPoolInput(e.input)
            /\ \E k \in 1..Len(applied.scripts) :
                /\ applied.scripts[k].purpose = Spending(e.input.out_ref)
                /\ applied.scripts[k].redeemer = e.redeemer}

\* the pool inputs spent under a redeemer of the given kinds
SpentUnder(tags) == {e \in Spent : e.redeemer.tag \in tags}

\* the record of a spent pool input that carries one
Old(e) == e.input.resolved.datum[1]

\* the outputs of the applied transaction that continue the spent input e:
\* same address, at least one unit of the identity the old record names
Continuations(e) ==
    {applied.tx.outputs[i] : i \in
        {j \in 1..Len(applied.tx.outputs) :
            /\ applied.tx.outputs[j].address = e.input.resolved.address
            /\ <<Old(e).pool_nft_policy, Old(e).pool_nft_name>>
                    \in DOMAIN applied.tx.outputs[j].value
            /\ applied.tx.outputs[j].value[<<Old(e).pool_nft_policy,
                                             Old(e).pool_nft_name>>] >= 1}}

\* the units of a token in a value
Units(v, policy, name) == IF <<policy, name>> \in DOMAIN v THEN v[<<policy, name>>] ELSE 0

\* the last submission was rejected with message m under a redeemer of kind tag
RejectedWith(m, tag) ==
    /\ phase = "rejected"
    /\ verdict.msg = m
    /\ \E k \in 1..Len(verdict.scripts) : verdict.scripts[k].redeemer.tag = tag

-----------------------------------------------------------------------------
(* C1: an Unstake or a Claim on a pool is applied only when the transaction *)
(* spends an input at the script address whose hash is the                 *)
(* staking_validator_hash of the spent pool's own record, whoever signs.   *)
C1_StakingValidatorAuthorizes ==
    phase = "accepted" =>
        \A e \in SpentUnder({"Unstake", "Claim"}) :
            \E i \in 1..Len(applied.tx.inputs) :
                applied.tx.inputs[i].resolved.address.payment_credential
                    = ScriptCredential(Old(e).staking_validator_hash)

\* An Unstake signed by the owner and the user, with no input at the staking
\* validator the record names, was rejected for that reason.
C1_Witness ==
    /\ RejectedWith("Staking validator must authorize unstake", "Unstake")
    /\ verdict.tx.signatories = {OwnerPkh, UserPkh}
    /\ \A i \in 1..Len(verdict.tx.inputs) :
            verdict.tx.inputs[i].resolved.address.payment_credential.tag
                = "ScriptCredential"
            => IsPoolInput(verdict.tx.inputs[i])

(* C6: under every redeemer, a transition is applied only when the spent   *)
(* pool input carries an inline record and at least one unit of the        *)
(* identity token that record names; an output at the pool address with a  *)
(* record and no token is never the subject of an applied transition.      *)
C6_IdentityTokenRequired ==
    phase = "accepted" =>
        \A e \in Spent :
            /\ IsSomeOutputDatum(e.input.resolved.datum)
            /\ Units(e.input.resolved.value,
                     Old(e).pool_nft_policy, Old(e).pool_nft_name) >= 1

\* A Stake that spends, beside the pool, an output at the pool address that
\* carries the pool's record and no token, was rejected for the missing token.
C6_Witness ==
    /\ RejectedWith("Pool NFT not found", "Stake")
    /\ Len(verdict.scripts) = 2

(* C7: the continuing record of an applied transition differs from the     *)
(* spent record in the authorised field only: total_staked under Stake and *)
(* Unstake, yield_rate under UpdatePool, paused under PausePool, and no     *)
(* field under Claim, FundTreasury and WithdrawTreasury.                   *)
Authorised(tag) ==
    CASE tag \in {"Stake", "Unstake"} -> {"total_staked"}
      [] tag = "UpdatePool" -> {"yield_rate"}
      [] tag = "PausePool" -> {"paused"}
      [] OTHER -> {}

C7_Frame ==
    phase = "accepted" =>
        \A e \in Spent \ SpentUnder({"ClosePool"}) :
            /\ Continuations(e) # {}
            /\ \A o \in Continuations(e) :
                /\ IsSomeOutputDatum(o.datum)
                /\ \A f \in PoolFields \ Authorised(e.redeemer.tag) :
                        o.datum[1][f] = Old(e)[f]

\* A Stake whose continuing record was tampered with was rejected for it.
C7_Witness == RejectedWith("Datum mismatch", "Stake")

(* C8: a Stake(amt) is applied only when the spent record has paused = 0,  *)
(* amt >= min_stake, an output at the same address with the identity token *)
(* carries total_staked = old + amt, and, when floor(amt * deposit_fee_bps *)
(* / 10000) is above zero, an output at the key address platform_fee_pkh   *)
(* holds at least that many stake tokens.                                  *)
C8_Stake ==
    phase = "accepted" =>
        \A e \in SpentUnder({"Stake"}) :
            /\ Old(e).paused = 0
            /\ e.redeemer.amount >= Old(e).min_stake
            /\ \E o \in Continuations(e) :
                /\ IsSomeOutputDatum(o.datum)
                /\ o.datum[1].total_staked = Old(e).total_staked + e.redeemer.amount
            /\ \/ (e.redeemer.amount * Old(e).deposit_fee_bps) \div 10000 = 0
               \/ \E i \in 1..Len(applied.tx.outputs) :
                    /\ applied.tx.outputs[i].address.payment_credential
                            = PubKeyCredential(Old(e).platform_fee_pkh)
                    /\ Units(applied.tx.outputs[i].value,
                             Old(e).stake_token_policy, Old(e).stake_token_name)
                         >= (e.redeemer.amount * Old(e).deposit_fee_bps) \div 10000

\* A Stake whose fee is zero was applied with no output beside the pool's.
C8_Witness ==
    /\ phase = "accepted"
    /\ \E e \in SpentUnder({"Stake"}) :
            (e.redeemer.amount * Old(e).deposit_fee_bps) \div 10000 = 0
    /\ Len(applied.tx.outputs) = 1

(* C9: an Unstake(amt) is applied only when 0 < amt <= total_staked, the   *)
(* continuing record's total_staked is the old one less amt, and the       *)
(* continuing output holds at least amt fewer stake tokens than the spent  *)
(* input; and no pool output on the ledger that carries its identity token *)
(* has a negative total_staked.                                            *)
PoolStates(utxos) ==
    {u \in utxos :
        /\ IsPoolInput(u)
        /\ IsSomeOutputDatum(u.resolved.datum)
        /\ Units(u.resolved.value, u.resolved.datum[1].pool_nft_policy,
                 u.resolved.datum[1].pool_nft_name) >= 1}

-----------------------------------------------------------------------------
(* The transactions submitted to the two minting policies.  A shape varies *)
(* one thing at a time from a mint that passes: the redeemer's index, what *)
(* is minted, the record in the target output, and for a pool the          *)
(* authority, the signers and the declared validator.                      *)

\* wallet outputs a mint may consume first: two outputs of one transaction
\* and one of another
GenesisSeeds == {Seed(5, 0), Seed(5, 1), Seed(6, 0)}

\* a token name that no input gives rise to
ExtraName == Bytes(32, 98)

\* the outputs holding a token of the policy, and the name of that token
Holding(utxos, policy) == {u \in utxos : \E a \in DOMAIN u.resolved.value : a[1] = policy}
NameHeld(u, policy) == (CHOOSE a \in DOMAIN u.resolved.value : a[1] = policy)[2]

\* record d with field t[1] changed the way t[2] says
SetField(d, t) ==
    IF t[1] = "none" THEN d
    ELSE [d EXCEPT ![t[1]] =
            CASE t[2] = "other" -> Other(@)
              [] t[2] = "short" -> Short(@)
              [] t[2] = "user" -> UserPkh
              [] t[2] = "zero" -> 0
              [] t[2] = "one" -> 1
              [] t[2] = "two" -> 2
              [] t[2] = "max" -> MaxYieldRate
              [] OTHER -> MaxYieldRate + 1]

Untouched == <<"none", "none">>
NoRecord == <<"none", "missing">>

AuthorityTampers ==
    {<<"platform_nft_policy", "other">>, <<"platform_nft_name", "other">>,
     <<"pool_creator_pkh", "short">>, <<"platform_admin_pkh", "short">>,
     <<"pool_creator_pkh", "user">>, NoRecord}

PoolMintTampers ==
    {<<"pool_nft_policy", "other">>, <<"pool_nft_name", "other">>,
     <<"yield_rate", "zero">>, <<"yield_rate", "max">>, <<"yield_rate", "over">>,
     <<"min_stake", "zero">>, <<"total_staked", "one">>, <<"owner", "short">>,
     <<"staking_validator_hash", "short">>, <<"position_nft_policy_hash", "short">>,
     <<"platform_fee_pkh", "short">>, <<"burn_address_hash", "short">>,
     <<"stake_token_policy", "short">>, <<"reward_token_policy", "short">>,
     <<"paused", "one">>, <<"paused", "two">>,
     NoRecord}

GoodMintShape ==
    [index |-> 0, qty |-> 1, name |-> "hash", extra |-> FALSE, tamper |-> Untouched]

MintShapes(tampers) ==
    {[GoodMintShape EXCEPT !.index = i] : i \in {-1, 0, 1, 2}}
    \cup {[GoodMintShape EXCEPT !.qty = 2], [GoodMintShape EXCEPT !.name = "other"],
          [GoodMintShape EXCEPT !.extra = TRUE]}
    \cup {[GoodMintShape EXCEPT !.tamper = t] : t \in tampers}

\* what a shape mints under the policy, first for the name nm
Minted(policy, nm, s) ==
    Val({<<policy, nm, s.qty>>}
        \cup (IF s.extra THEN {<<policy, ExtraName, 1>>} ELSE {}))

RecordIn(d, t) == IF t = NoRecord THEN NoOutputDatum ELSE SomeOutputDatum(SetField(d, t))

ChangeOutput(policy, s) ==
    TxOut(KeyAddress(CreatorPkh),
          IF s.extra THEN Val({<<policy, ExtraName, 1>>}) ELSE EmptyValue, NoOutputDatum)

\* the Platform Authority mint that consumes seed first
AuthorityMintTx(seed, s) ==
    LET tn == sha2_256(seed.out_ref.id)
        nm == IF s.name = "hash" THEN tn ELSE Other(tn)
        d == PlatformAuthorityDatum(CreatorPkh, AdminPkh, AuthorityPolicyId, nm)
    IN  Tx(<<seed>>, << >>,
           <<TxOut(KeyAddress(AdminPkh), Val({<<AuthorityPolicyId, nm, s.qty>>}),
                   RecordIn(d, s.tamper)),
             ChangeOutput(AuthorityPolicyId, s)>>,
           Minted(AuthorityPolicyId, nm, s), {CreatorPkh})

AuthorityMintScripts(s) ==
    <<[purpose |-> Minting(AuthorityPolicyId), redeemer |-> MintAuthority(s.index)]>>

SubmitMintAuthority ==
    /\ Ready
    /\ \E seed \in ledger \cap GenesisSeeds, s \in MintShapes(AuthorityTampers) :
        \E p \in {[tx |-> AuthorityMintTx(seed, s), scripts |-> AuthorityMintScripts(s)]} :
            Submit(p)

\* The holder of an authority token moves it to an output of its choosing,
\* with the record it chooses: no script of this repository runs.
SubmitMoveAuthority ==
    /\ Ready
    /\ \E u \in Holding(ledger, AuthorityPolicyId),
          t \in {<<"platform_nft_name", "other">>, <<"pool_creator_pkh", "user">>, NoRecord} :
        /\ IsSomeOutputDatum(u.resolved.datum)
        /\ Submit([tx |-> Tx(<<u>>, << >>,
                             <<TxOut(u.resolved.address, u.resolved.value,
                                     RecordIn(u.resolved.datum[1], t))>>,
                             EmptyValue, {AdminPkh}),
                   scripts |-> << >>])

\* A transaction under BurnAuthority: it burns the token, or tries to mint
BurnQuantities == {-1, 1}

BurnTx(u, policy, q, sigs) ==
    Tx(<<u>>, << >>,
       IF q < 0 THEN << >>
       ELSE <<TxOut(u.resolved.address,
                    Val({<<policy, NameHeld(u, policy), 1 + q>>}), u.resolved.datum)>>,
       Val({<<policy, NameHeld(u, policy), q>>}), sigs)

SubmitBurnAuthority ==
    /\ Ready
    /\ \E u \in Holding(ledger, AuthorityPolicyId), q \in BurnQuantities :
        Submit([tx |-> BurnTx(u, AuthorityPolicyId, q, {AdminPkh}),
                scripts |-> <<[purpose |-> Minting(AuthorityPolicyId),
                               redeemer |-> BurnAuthority]>>])

\* an output with a record that names its holder pool creator, and no token
EnvForgedAuthority(n, policy, name) ==
    TxInInfo(TxOutRef(EnvTxId(n), 60),
             TxOut(KeyAddress(UserPkh), EmptyValue,
                   SomeOutputDatum(PlatformAuthorityDatum(UserPkh, UserPkh, policy, name))))

GoodPoolShape ==
    [mint |-> GoodMintShape, auth |-> "ref", ids |-> "good", sig |-> {CreatorPkh},
     hash |-> "pool", at |-> "declared"]

PoolMintShapes ==
    {[GoodPoolShape EXCEPT !.mint = m] : m \in MintShapes(PoolMintTampers)}
    \cup {[GoodPoolShape EXCEPT !.auth = a] : a \in {"spent", "none"}}
    \cup {[GoodPoolShape EXCEPT !.auth = "forged", !.sig = g] :
            g \in {{UserPkh}, {UserPkh, CreatorPkh}}}
    \cup {[GoodPoolShape EXCEPT !.ids = i] : i \in {"name", "shortpolicy", "shortname"}}
    \cup {[GoodPoolShape EXCEPT !.sig = g] : g \in {{}, {AdminPkh}, {UserPkh}}}
    \cup {[GoodPoolShape EXCEPT !.hash = h] : h \in {"foreign", "short"}}
    \cup {[GoodPoolShape EXCEPT !.at = a] : a \in {"other", "key"}}

DeclaredHash(s) ==
    CASE s.hash = "pool" -> PoolValidatorHash
      [] s.hash = "foreign" -> ForeignScriptHash
      [] OTHER -> Short(PoolValidatorHash)

TargetAddress(s) ==
    CASE s.at = "declared" -> ScriptAddress(DeclaredHash(s))
      [] s.at = "other" -> ScriptAddress(BurnScriptHash)
      [] OTHER -> KeyAddress(OwnerPkh)

\* the authority token the redeemer names, given the one au holds
NamedPolicy(s) == IF s.ids = "shortpolicy" THEN Short(AuthorityPolicyId) ELSE AuthorityPolicyId
NamedName(au, s) ==
    CASE s.ids = "name" -> Other(NameHeld(au, AuthorityPolicyId))
      [] s.ids = "shortname" -> Short(NameHeld(au, AuthorityPolicyId))
      [] OTHER -> NameHeld(au, AuthorityPolicyId)

\* the Pool Identity mint that consumes seed, under the authority output au
PoolMintTx(seed, au, s, n) ==
    LET ins == SortInputs({seed} \cup (IF s.auth = "spent" THEN {au} ELSE {}))
        tn == sha2_256(ins[1].out_ref.id)
        nm == IF s.mint.name = "hash" THEN tn ELSE Other(tn)
        d == PoolDatum(nm, 500, 2, 0, StakingHashA, 5000, 0)
    IN  Tx(ins,
           CASE s.auth = "ref" -> <<au>>
             [] s.auth = "forged" ->
                    <<EnvForgedAuthority(n, NamedPolicy(s), NamedName(au, s))>>
             [] OTHER -> << >>,
           <<TxOut(TargetAddress(s), Val({<<PoolNftPolicyId, nm, s.mint.qty>>}),
                   RecordIn(d, s.mint.tamper)),
             ChangeOutput(PoolNftPolicyId, s.mint)>>
           \o (IF s.auth = "spent" THEN <<au.resolved>> ELSE << >>),
           Minted(PoolNftPolicyId, nm, s.mint), s.sig)

PoolMintScripts(au, s) ==
    <<[purpose |-> Minting(PoolNftPolicyId),
       redeemer |-> Mint(s.mint.index, DeclaredHash(s), NamedPolicy(s), NamedName(au, s))]>>

SubmitMintPool ==
    /\ Ready
    /\ \E seed \in ledger \cap GenesisSeeds, au \in Holding(ledger, AuthorityPolicyId),
          s \in PoolMintShapes :
        \E p \in {[tx |-> PoolMintTx(seed, au, s, ntx + 1),
                   scripts |-> PoolMintScripts(au, s)]} :
            Submit(p)

\* A transaction under Burn on a pool identity token: it burns the token, or
\* tries to mint.  A token at the pool validator leaves it under ClosePool.
SubmitBurnPool ==
    /\ Ready
    /\ \E u \in Holding(ledger, PoolNftPolicyId), q \in BurnQuantities :
        Submit([tx |-> BurnTx(u, PoolNftPolicyId, q, {OwnerPkh}),
                scripts |-> <<[purpose |-> Minting(PoolNftPolicyId), redeemer |-> Burn]>>
                            \o (IF IsPoolInput(u)
                                THEN <<[purpose |-> Spending(u.out_ref),
                                        redeemer |-> ClosePool]>>
                                ELSE << >>)])

-----------------------------------------------------------------------------
(* The two capabilities: a ledger with wallet outputs and the platform's   *)
(* authority token, as its mint leaves it                                  *)

Init ==
    /\ LET seed == Seed(1, 0)
           tx == AuthorityMintTx(seed, GoodMintShape)
           scripts == AuthorityMintScripts(GoodMintShape)
       IN  /\ Verdict({seed}, 0, tx, scripts) = "OK"
           /\ ledger = Apply({seed} \cup GenesisSeeds, tx, 0)
           /\ supply = Supplied(EmptyValue, tx)
    /\ created = {}
    /\ verdict = [msg |-> "", tx |-> EmptyTx, scripts |-> << >>]
    /\ phase = "idle"
    /\ pause_log = {}
    /\ ntx = 0
    /\ clock = 0
    /\ consumed = {}

Next ==
    \/ SubmitMintAuthority
    \/ SubmitMoveAuthority
    \/ SubmitBurnAuthority
    \/ SubmitMintPool
    \/ SubmitBurnPool
    \/ NextTransaction

Spec == Init /\ [][Next]_vars

-----------------------------------------------------------------------------
(* What the properties read from a mint *)

\* the scripts of the applied transaction that ran policy under a redeemer of kind tag
Ran(policy, tag) ==
    {applied.scripts[k] : k \in
        {j \in 1..Len(applied.scripts) :
            /\ applied.scripts[j].purpose = Minting(policy)
            /\ applied.scripts[j].redeemer.tag = tag}}

\* the assets the applied transaction mints or burns under the policy
MintedUnder(policy) == {a \in DOMAIN applied.tx.mint : a[1] = policy}

\* the output the redeemer designates, which exists
Target(r) == applied.tx.outputs[r.output_index + 1]
InRange(r) == r.output_index >= 0 /\ r.output_index < Len(applied.tx.outputs)

\* exactly one name is minted under the policy: one unit of the hash of the
\* first input's transaction id, and the designated output holds one unit
OneUnitMinted(policy, r) ==
    /\ MintedUnder(policy) = {<<policy, sha2_256(applied.tx.inputs[1].out_ref.id)>>}
    /\ \A a \in MintedUnder(policy) : applied.tx.mint[a] = 1
    /\ InRange(r)
    /\ \A a \in MintedUnder(policy) : Units(Target(r).value, a[1], a[2]) = 1

(* C2: of no token name under the Platform Authority policy or the Pool    *)
(* Identity policy is more than one unit ever minted.                      *)
C2_OneShot ==
    \A a \in DOMAIN supply :
        a[1] \in {AuthorityPolicyId, PoolNftPolicyId} => supply[a] <= 1

(* C3: a transaction that mints under the Pool Identity policy is applied  *)
(* only under the Mint redeemer, when a reference input holds the          *)
(* authority token the redeemer names with a record whose self-reference   *)
(* is that policy and name, and the record's pool_creator_pkh signs.       *)
C3_PoolMintAuthorized ==
    (phase = "accepted" /\ \E a \in MintedUnder(PoolNftPolicyId) : applied.tx.mint[a] > 0)
    => /\ Ran(PoolNftPolicyId, "Mint") # {}
       /\ \A m \in Ran(PoolNftPolicyId, "Mint") :
            \E i \in 1..Len(applied.tx.reference_inputs) :
                LET ref == applied.tx.reference_inputs[i].resolved IN
                /\ Units(ref.value, m.redeemer.platform_authority_nft_policy,
                         m.redeemer.platform_authority_nft_name) >= 1
                /\ IsSomeOutputDatum(ref.datum)
                /\ ref.datum[1].platform_nft_policy
                        = m.redeemer.platform_authority_nft_policy
                /\ ref.datum[1].platform_nft_name = m.redeemer.platform_authority_nft_name
                /\ ref.datum[1].pool_creator_pkh \in applied.tx.signatories

\* A Mint signed by the pool creator that spends the authority output, and
\* refers to none, was rejected: no authority among the reference inputs.
C3_Witness ==
    /\ RejectedWith("Platform Authority not found in reference inputs", "Mint")
    /\ CreatorPkh \in verdict.tx.signatories
    /\ verdict.tx.reference_inputs = << >>
    /\ \E i \in 1..Len(verdict.tx.inputs) :
        \E a \in DOMAIN verdict.tx.inputs[i].resolved.value : a[1] = AuthorityPolicyId

C5_AuthorityMint ==
    phase = "accepted" =>
        \A m \in Ran(AuthorityPolicyId, "MintAuthority") :
            /\ OneUnitMinted(AuthorityPolicyId, m.redeemer)
            /\ IsSomeOutputDatum(Target(m.redeemer).datum)
            /\ LET d == Target(m.redeemer).datum[1] IN
                /\ <<d.platform_nft_policy, d.platform_nft_name>>
                        \in MintedUnder(AuthorityPolicyId)
                /\ d.pool_creator_pkh[1] = 28
                /\ d.platform_admin_pkh[1] = 28

\* A Platform Authority Mint was applied, from a wallet output.
C5_Witness ==
    /\ phase = "accepted"
    /\ Ran(AuthorityPolicyId, "MintAuthority") # {}
    /\ supply[<<AuthorityPolicyId, sha2_256(applied.tx.inputs[1].out_ref.id)>>] = 1

-----------------------------------------------------------------------------
(* What the properties read from a submission against a position *)

\* the staking-validator inputs the transaction tx spends, each with its redeemer
PositionsSpentBy(tx, scripts) ==
    UNION {{[input |-> tx.inputs[i], redeemer |-> scripts[k].redeemer] :
                k \in {j \in 1..Len(scripts) :
                        scripts[j].purpose = Spending(tx.inputs[i].out_ref)}} :
            i \in {j \in 1..Len(tx.inputs) :
                    /\ IsStakingInput(tx.inputs[j])
                    /\ IsSomeOutputDatum(tx.inputs[j].resolved.datum)}}

\* those of the applied transaction, under a redeemer of the given kinds
PositionsUnder(tags) ==
    {e \in PositionsSpentBy(applied.tx, applied.scripts) : e.redeemer.tag \in tags}

\* the pool records the transaction shows for the identity the spent record
\* names: those of its inputs and reference inputs that hold the pool token
PoolRecords(tx, e) ==
    {x.resolved.datum[1] :
        x \in {y \in {tx.inputs[i] : i \in 1..Len(tx.inputs)}
                     \cup {tx.reference_inputs[i] : i \in 1..Len(tx.reference_inputs)} :
                /\ Units(y.resolved.value, Old(e).pool_nft_policy, Old(e).pool_nft_name) >= 1
                /\ IsSomeOutputDatum(y.resolved.datum)}}

\* the declared validity interval has two finite bounds
Bounded(tx) ==
    /\ tx.validity_range.lower_bound.limit.tag = "FinitePOSIXTime"
    /\ tx.validity_range.upper_bound.limit.tag = "FinitePOSIXTime"
Lower(tx) == tx.validity_range.lower_bound.limit.time
Upper(tx) == tx.validity_range.upper_bound.limit.time

\* the outputs of the applied transaction that continue the spent position e
\* of pool record pr: same address, at least one unit of the position token
PositionContinuations(e, pr) ==
    {applied.tx.outputs[i] : i \in
        {j \in 1..Len(applied.tx.outputs) :
            /\ applied.tx.outputs[j].address = e.input.resolved.address
            /\ Units(applied.tx.outputs[j].value, pr.position_nft_policy_hash,
                     Old(e).position_nft_name) >= 1}}

-----------------------------------------------------------------------------
-----------------------------------------------------------------------------
(* C12: an UpdatePool, ClosePool, FundTreasury, WithdrawTreasury or        *)
(* PausePool is applied only when the signers include the owner key of the *)
(* spent pool record, and that key is the one the pool was created with:   *)
(* every pool output that carries its identity token has the owner of the  *)
(* record the Pool Identity mint created.                                  *)
OwnerBranches == {"UpdatePool", "ClosePool", "FundTreasury", "WithdrawTreasury", "PausePool"}

OwnerAtCreation(d) ==
    \E c \in created :
        /\ c.pool_nft_policy = d.pool_nft_policy
        /\ c.pool_nft_name = d.pool_nft_name
        /\ c.owner = d.owner

-----------------------------------------------------------------------------
(* C13: a Register, a Claim or a Compound on a position is applied only    *)
(* when the validity interval has a finite lower and a finite upper bound  *)
(* at most 600000 ms apart; the upper bound is the "now" of the checks: it *)
(* is the last_claim of the record a Claim or a Compound continues, and no *)
(* Register is applied on a record staked after it.                        *)
C13_ValidityWindow ==
    phase = "accepted" =>
        \A e \in PositionsUnder({"Register", "Claim", "Compound"}) :
            /\ Bounded(applied.tx)
            /\ Upper(applied.tx) - Lower(applied.tx) <= 600000
            /\ e.redeemer.tag = "Register" => Old(e).staked_at <= Upper(applied.tx)
            /\ e.redeemer.tag \in {"Claim", "Compound"} =>
                \A pr \in PoolRecords(applied.tx, e) :
                    /\ PositionContinuations(e, pr) # {}
                    /\ \E o \in PositionContinuations(e, pr) :
                        /\ IsSomeOutputDatum(o.datum)
                        /\ o.datum[1].last_claim = Upper(applied.tx)

\* A Claim whose interval is [t, t + 700000], on a position whose reward at
\* the upper bound is above zero and whose continuing record is the one the
\* redeemer asks for, was rejected for the width of the interval.
C13_Witness ==
    /\ RejectedWith("Validity window too large (max 10 minutes)", "Claim")
    /\ Bounded(verdict.tx)
    /\ Upper(verdict.tx) - Lower(verdict.tx) = 700000
    /\ \E e \in PositionsSpentBy(verdict.tx, verdict.scripts) :
        \E pr \in PoolRecords(verdict.tx, e) :
            /\ (Old(e).stake_amount * pr.yield_rate
                    * ((Upper(verdict.tx) - Old(e).last_claim) \div 86400000))
                 \div 3650000 > 0
            /\ \E i \in 1..Len(verdict.tx.outputs) :
                /\ IsSomeOutputDatum(verdict.tx.outputs[i].datum)
                /\ verdict.tx.outputs[i].datum[1].last_claim = Upper(verdict.tx)

-----------------------------------------------------------------------------
(* C14: for the stake and last_claim of every position record in the       *)
(* ledger whose stake is not negative, the yield_rate of every pool record in the ledger and every     *)
(* instant, calculate_rewards is floor(stake * rate * floor((now -         *)
(* last_claim) / 86400000) / 3650000); it is 0 when now = last_claim, and  *)
(* it does not decrease when now grows.                                    *)
RewardInputs ==
    {<<PositionRecordOf(u).stake_amount, RecordOf(w).yield_rate,
       PositionRecordOf(u).last_claim>> :
        u \in {x \in Positions(ledger) : PositionRecordOf(x).stake_amount >= 0},
        w \in PoolOutputs(ledger)}

C14_RewardFormula ==
    \A in \in RewardInputs :
        LET stake == in[1]
            rate == in[2]
            last == in[3]
            nows == Instants \cup {last} IN
        /\ \A now \in nows :
            calculate_rewards(stake, rate, last, now)
                = (stake * rate * ((now - last) \div 86400000)) \div 3650000
        /\ calculate_rewards(stake, rate, last, last) = 0
        /\ \A t1 \in nows, t2 \in nows :
            t1 <= t2 => calculate_rewards(stake, rate, last, t1)
                            <= calculate_rewards(stake, rate, last, t2)

\* A Claim was applied whose reward, two units, is the formula's for a stake
\* of 1000 at rate 10000 over one day and 600000 ms, and the ledger holds
\* the record it continued.
C14_Witness ==
    /\ phase = "accepted"
    /\ \E e \in PositionsUnder({"Claim"}) :
        /\ Old(e).stake_amount = 1000
        /\ Upper(applied.tx) - Old(e).last_claim = 86400000 + 600000
        /\ \E u \in Positions(ledger) :
            /\ IsSomeOutputDatum(u.resolved.datum)
            /\ u.resolved.datum[1].total_claimed = Old(e).total_claimed + 2
            /\ u.resolved.datum[1].last_claim = Upper(applied.tx)

-----------------------------------------------------------------------------
(* C15: a Claim or a Compound on a position, a record at the staking       *)
(* validator that holds its reference token, is applied only when "now",   *)
(* the upper bound of the validity interval, is at least 86400000 ms after *)
(* the last_claim of the spent record; so a second Claim at the instant of *)
(* the first is not applied.                                               *)
HoldsReferenceToken(e) ==
    Units(e.input.resolved.value, PositionPolicyId, Old(e).position_nft_name) >= 1

C15_NoClaimWithinADay ==
    phase = "accepted" =>
        \A e \in PositionsUnder({"Claim", "Compound"}) :
            HoldsReferenceToken(e) =>
                Upper(applied.tx) - Old(e).last_claim >= 86400000

\* The part that holds: a Claim at the instant of the Claim applied just
\* before, on the record that Claim wrote, is rejected for its zero reward.
C15_SecondClaimRejected ==
    /\ RejectedWith("No rewards to claim", "Claim")
    /\ ntx = 1
    /\ \E e \in PositionsSpentBy(verdict.tx, verdict.scripts) :
        /\ HoldsReferenceToken(e)
        /\ e.input.out_ref.id = TxIdOf(1)
        /\ Old(e).total_claimed > 0
        /\ Old(e).last_claim = Upper(verdict.tx)

-----------------------------------------------------------------------------
(* C16: a Claim on a position is applied only when the user key of the     *)
(* spent record signs, the reward floor(stake_amount * yield_rate *        *)
(* floor((now - last_claim) / 86400000) / 3650000) of the spent record and *)
(* the pool record is above zero, and an output at the same address that   *)
(* holds the position token has last_claim = now, total_claimed = the old  *)
(* total_claimed plus the reward, and the pool identity, user key,         *)
(* position name, stake_amount and staked_at of the spent record; no       *)
(* payment to the platform fee key is needed.                              *)
RewardAt(d, pr, now) ==
    (d.stake_amount * pr.yield_rate * ((now - d.last_claim) \div 86400000)) \div 3650000

C16_Claim ==
    phase = "accepted" =>
        \A e \in PositionsUnder({"Claim"}) :
            /\ Old(e).user_pkh \in applied.tx.signatories
            /\ Bounded(applied.tx)
            /\ \E pr \in PoolRecords(applied.tx, e) :
                LET reward == RewardAt(Old(e), pr, Upper(applied.tx)) IN
                /\ reward > 0
                /\ \E o \in PositionContinuations(e, pr) :
                    /\ IsSomeOutputDatum(o.datum)
                    /\ o.datum[1] = [Old(e) EXCEPT
                                        !.last_claim = Upper(applied.tx),
                                        !.total_claimed = @ + reward]

\* A Claim of two units was applied whose transaction pays nothing to the
\* platform fee key of a pool that takes a fee of 5000 basis points.
C16_Witness ==
    /\ phase = "accepted"
    /\ \E e \in PositionsUnder({"Claim"}) :
        \E pr \in PoolRecords(applied.tx, e) :
            /\ pr.deposit_fee_bps = 5000
            /\ RewardAt(Old(e), pr, Upper(applied.tx)) = 2
            /\ \A i \in 1..Len(applied.tx.outputs) :
                applied.tx.outputs[i].address.payment_credential.credential_hash
                    # pr.platform_fee_pkh

-----------------------------------------------------------------------------
(* C17: a Compound on a position is applied only when the user key of the  *)
(* spent record signs, the reward is above zero, an output at the same     *)
(* address that holds the position token carries the spent record with     *)
(* stake_amount increased by reward - fee, fee = floor(reward *            *)
(* deposit_fee_bps / 10000), last_claim = now and total_claimed increased  *)
(* by the reward, every other field unchanged, and, when the fee is not    *)
(* zero, an output to the platform fee key holds at least fee units of the *)
(* reward token.                                                           *)
FeePaidIn(tx, pr, fee, policy, name) ==
    \/ fee = 0
    \/ \E i \in 1..Len(tx.outputs) :
        /\ tx.outputs[i].address.payment_credential
                = [tag |-> "PubKeyCredential", credential_hash |-> pr.platform_fee_pkh]
        /\ Units(tx.outputs[i].value, policy, name) >= fee

C17_Compound ==
    phase = "accepted" =>
        \A e \in PositionsUnder({"Compound"}) :
            /\ Old(e).user_pkh \in applied.tx.signatories
            /\ Bounded(applied.tx)
            /\ \E pr \in PoolRecords(applied.tx, e) :
                LET reward == RewardAt(Old(e), pr, Upper(applied.tx))
                    fee == (reward * pr.deposit_fee_bps) \div 10000 IN
                /\ reward > 0
                /\ \E o \in PositionContinuations(e, pr) :
                    /\ IsSomeOutputDatum(o.datum)
                    /\ o.datum[1] = [Old(e) EXCEPT
                                        !.stake_amount = @ + reward - fee,
                                        !.last_claim = Upper(applied.tx),
                                        !.total_claimed = @ + reward]
                /\ FeePaidIn(applied.tx, pr, fee, pr.reward_token_policy,
                             pr.reward_token_name)

\* A Compound of a two-unit reward was applied on a pool with a fee of 5000
\* basis points: one unit of the reward token went to the platform fee key,
\* none of the stake token, and the stake grew by one.
C17_Witness ==
    /\ phase = "accepted"
    /\ \E e \in PositionsUnder({"Compound"}) :
        \E pr \in PoolRecords(applied.tx, e) :
            /\ pr.deposit_fee_bps = 5000
            /\ RewardAt(Old(e), pr, Upper(applied.tx)) = 2
            /\ ~FeePaidIn(applied.tx, pr, 1, pr.stake_token_policy, pr.stake_token_name)
            /\ FeePaidIn(applied.tx, pr, 1, pr.reward_token_policy, pr.reward_token_name)
            /\ \E o \in PositionContinuations(e, pr) :
                o.datum[1].stake_amount = Old(e).stake_amount + 1

-----------------------------------------------------------------------------
(* C18: a Register(deposit) on a position is applied only when the user    *)
(* key of the record signs, the pool is not paused, deposit >= min_stake,  *)
(* the record has stake_amount = deposit, staked_at = last_claim = now,    *)
(* the upper bound of the validity interval, and total_claimed = 0, and    *)
(* the fee floor(deposit * deposit_fee_bps / 10000) is paid to the         *)
(* platform fee key in the stake token; the stake recorded is the whole    *)
(* deposit.                                                                *)
RegisterChecks(e, pr) ==
    /\ Old(e).user_pkh \in applied.tx.signatories
    /\ pr.paused = 0
    /\ e.redeemer.initial_deposit >= pr.min_stake
    /\ Old(e).stake_amount = e.redeemer.initial_deposit
    /\ Old(e).last_claim = Old(e).staked_at
    /\ Old(e).total_claimed = 0
    /\ Bounded(applied.tx)
    /\ FeePaidIn(applied.tx, pr, (e.redeemer.initial_deposit * pr.deposit_fee_bps) \div 10000,
                 pr.stake_token_policy, pr.stake_token_name)

C18_Register ==
    phase = "accepted" =>
        \A e \in PositionsUnder({"Register"}) :
            \E pr \in PoolRecords(applied.tx, e) :
                /\ RegisterChecks(e, pr)
                /\ Old(e).staked_at = Upper(applied.tx)

\* What the Register branch does enforce: the same with staked_at no later
\* than now.
C18_RegisterNotAfterNow ==
    phase = "accepted" =>
        \A e \in PositionsUnder({"Register"}) :
            \E pr \in PoolRecords(applied.tx, e) :
                /\ RegisterChecks(e, pr)
                /\ Old(e).staked_at <= Upper(applied.tx)

\* Scenario A: a Register of 1000 on a pool with min_stake 500 and a fee of
\* 100 basis points was applied with 10 units of the stake token paid to the
\* platform fee key, on a record of stake_amount 1000.
C18_ScenarioA ==
    /\ phase = "accepted"
    /\ \E e \in PositionsUnder({"Register"}) :
        \E pr \in PoolRecords(applied.tx, e) :
            /\ e.redeemer.initial_deposit = 1000
            /\ pr.min_stake = 500
            /\ pr.deposit_fee_bps = 100
            /\ Old(e).stake_amount = 1000
            /\ FeePaidIn(applied.tx, pr, 10, pr.stake_token_policy, pr.stake_token_name)
            /\ ~FeePaidIn(applied.tx, pr, 11, pr.stake_token_policy, pr.stake_token_name)


\* A Register was applied on a record staked a whole day before now.
C18_BackdatedRegister ==
    /\ phase = "accepted"
    /\ \E e \in PositionsUnder({"Register"}) :
        Upper(applied.tx) - Old(e).staked_at = 86400000

-----------------------------------------------------------------------------
(* C19: a Deposit(amt) on a position is applied only when the user key of  *)
(* the spent record signs, amt > 0, the pool is not paused, an output at   *)
(* the same address that holds the position token carries the spent record *)
(* with stake_amount increased by amt - fee, fee = floor(amt *             *)
(* deposit_fee_bps / 10000), and every other field unchanged, and, when    *)
(* the fee is not zero, an output to the platform fee key holds at least   *)
(* fee units of the stake token.                                           *)
C19_Deposit ==
    phase = "accepted" =>
        \A e \in PositionsUnder({"Deposit"}) :
            /\ Old(e).user_pkh \in applied.tx.signatories
            /\ e.redeemer.amount > 0
            /\ \E pr \in PoolRecords(applied.tx, e) :
                LET fee == (e.redeemer.amount * pr.deposit_fee_bps) \div 10000 IN
                /\ pr.paused = 0
                /\ \E o \in PositionContinuations(e, pr) :
                    /\ IsSomeOutputDatum(o.datum)
                    /\ o.datum[1] = [Old(e) EXCEPT
                                        !.stake_amount = @ + e.redeemer.amount - fee]
                /\ FeePaidIn(applied.tx, pr, fee, pr.stake_token_policy,
                             pr.stake_token_name)

\* A Deposit of 1000 was applied on a pool with a fee of 100 basis points:
\* the stake grew by 990 and 10 units of the stake token, no more, went to
\* the platform fee key.
C19_Witness ==
    /\ phase = "accepted"
    /\ \E e \in PositionsUnder({"Deposit"}) :
        \E pr \in PoolRecords(applied.tx, e) :
            /\ e.redeemer.amount = 1000
            /\ pr.deposit_fee_bps = 100
            /\ FeePaidIn(applied.tx, pr, 10, pr.stake_token_policy, pr.stake_token_name)
            /\ ~FeePaidIn(applied.tx, pr, 11, pr.stake_token_policy, pr.stake_token_name)
            /\ \E o \in PositionContinuations(e, pr) :
                o.datum[1].stake_amount = Old(e).stake_amount + 990

-----------------------------------------------------------------------------
(* C20: a Withdraw(amt), amt = 0 standing for the whole stake_amount, is   *)
(* applied only when the user key of the spent record signs, the amount is *)
(* above zero and at most stake_amount, and both tokens of the position's  *)
(* identity pair, the reference token and the user token, go to script     *)
(* outputs at the pool's burn address; no output of the transaction at the *)
(* staking validator then holds the reference token, whether the amount is *)
(* the whole stake or part of it.                                          *)
SentToBurn(tx, pr, name) ==
    \E i \in 1..Len(tx.outputs) :
        /\ tx.outputs[i].address.payment_credential
                = [tag |-> "ScriptCredential", credential_hash |-> pr.burn_address_hash]
        /\ Units(tx.outputs[i].value, pr.position_nft_policy_hash, name) >= 1

EffectiveAmount(e) ==
    IF e.redeemer.amount = 0 THEN Old(e).stake_amount ELSE e.redeemer.amount

\* the user token of the pair whose reference token is named name: the
\* other label before the same 32-byte identifier
UserNameOf(name) == make_user_name(<<name[1] - 4, name[2] - 2000>>)

WithdrawChecks(e, pr) ==
    /\ Old(e).user_pkh \in applied.tx.signatories
    /\ EffectiveAmount(e) > 0
    /\ EffectiveAmount(e) <= Old(e).stake_amount
    /\ SentToBurn(applied.tx, pr, Old(e).position_nft_name)
    /\ PositionContinuations(e, pr) = {}

C20_Withdraw ==
    phase = "accepted" =>
        \A e \in PositionsUnder({"Withdraw"}) :
            \E pr \in PoolRecords(applied.tx, e) :
                /\ WithdrawChecks(e, pr)
                /\ SentToBurn(applied.tx, pr, UserNameOf(Old(e).position_nft_name))

\* What the Withdraw branch does enforce: the same for the reference token
\* alone.
C20_ReferenceTokenToBurn ==
    phase = "accepted" =>
        \A e \in PositionsUnder({"Withdraw"}) :
            \E pr \in PoolRecords(applied.tx, e) : WithdrawChecks(e, pr)

\* A Withdraw of one unit out of a larger stake was applied while the user
\* token stayed in an unspent wallet output.
C20_UserTokenKept ==
    /\ phase = "accepted"
    /\ \E e \in PositionsUnder({"Withdraw"}) :
        /\ e.redeemer.amount = 1
        /\ Old(e).stake_amount > 1
        /\ HoldsReferenceToken(e)
        /\ \E w \in WalletsOf(ledger) : TRUE

-----------------------------------------------------------------------------
(* The pool closure sweep: the owner of a pool refunds its positions *)

SecondPositionId == Bytes(32, 8)

\* the reference tokens the spent outputs S hold, in one value
ReferenceTokensOf(S) ==
    Val({<<PositionPolicyId, PositionRecordOf(u).position_nft_name, 1>> :
            u \in {x \in S : has_nft(x.resolved.value, PositionPolicyId,
                                     PositionRecordOf(x).position_nft_name)}})

StakeTokens(pool, n) == Val({<<pool.stake_token_policy, pool.stake_token_name, n>>})

\* what is paid out for the i-th spent position: to each staker the stake of
\* the record, or one unit less, or to the owner's key, or to a script of the
\* staker's hash; "one": the first staker alone is paid, the owner takes the
\* stake of the other positions
RefundPays == {"each", "one", "short", "owner", "script", "none"}
RefundPayout(pool, ins, pay) ==
    LET d(i) == PositionRecordOf(ins[i])
        paid == IF pay \in {"none"} THEN {}
                ELSE IF pay = "one" THEN {1}
                ELSE 1..Len(ins)
        To(i) == CASE pay = "owner" -> KeyAddress(pool.owner)
                   [] pay = "script" -> ScriptAddress(d(i).user_pkh)
                   [] OTHER -> KeyAddress(d(i).user_pkh)
        Amount(i) == IF pay = "short" THEN d(i).stake_amount - 1 ELSE d(i).stake_amount
    IN  [i \in paid |-> TxOut(To(i), StakeTokens(pool, Amount(i)), NoOutputDatum)]
        \o [i \in 1..(IF pay = "one" THEN Len(ins) - 1 ELSE 0) |->
                TxOut(KeyAddress(pool.owner), StakeTokens(pool, d(i + 1).stake_amount),
                      NoOutputDatum)]

\* the transaction spending the position outputs S under ForceRefund in shape s
RefundTx(utxos, S, s) ==
    LET ins == SortInputs(S)
        d == PositionRecordOf(ins[1])
        pools == PoolsOf(utxos, d)
        pool == IF pools = {} THEN DummyPoolDatum
                ELSE (CHOOSE w \in pools : TRUE).resolved.datum[1]
        tokens == ReferenceTokensOf(S)
        burn == IF tokens = EmptyValue THEN << >>
                ELSE <<TxOut(PositionPlace(ins[1], pool, s.burn), tokens, NoOutputDatum)>>
    IN  Tx(ins, IF s.ref THEN SortInputs(pools) ELSE << >>,
           burn \o RefundPayout(pool, ins, s.pay), EmptyValue, s.sig)

RefundScripts(S) ==
    LET ins == SortInputs(S) IN
    [i \in 1..Len(ins) |-> [purpose |-> Spending(ins[i].out_ref), redeemer |-> ForceRefund]]

RefundShape(sig, ref, burn, pay) == [sig |-> sig, ref |-> ref, burn |-> burn, pay |-> pay]

\* the shapes tried, each varying one thing the branch reads
RefundShapes ==
    {RefundShape(sig, TRUE, "burn", "each") : sig \in PositionSigners}
    \cup {RefundShape({OwnerPkh}, FALSE, "burn", "each")}
    \cup {RefundShape({OwnerPkh}, TRUE, to, "each") : to \in Places}
    \cup {RefundShape({OwnerPkh}, TRUE, "burn", pay) : pay \in RefundPays}

SubmitForceRefund ==
    /\ Ready
    /\ \E S \in SUBSET Positions(ledger) :
        /\ S # {}
        /\ \E s \in RefundShapes :
            Submit([tx |-> RefundTx(ledger, S, s), scripts |-> RefundScripts(S)])

\* a pool, paused or not, with two positions registered against it, of one
\* staker or of two
RefundStakers == {UserPkh, CreatorPkh}

InitRefund ==
    \E paused \in {0, 1}, second \in RefundStakers :
        LET pd == PoolDatum(sha2_256(Bytes(32, 3)), MaxYieldRate, 500, 1700,
                            StakingValidatorHash, 100, paused)
            pool == TxInInfo(TxOutRef(Bytes(32, 4), 0),
                             TxOut(ScriptAddress(PoolValidatorHash),
                                   PoolValue(pd, 1, 0, 3), SomeOutputDatum(pd)))
            Position(id, idx, user, stake) ==
                TxInInfo(TxOutRef(Bytes(32, 9), idx),
                         TxOut(ScriptAddress(StakingValidatorHash),
                               Val({<<PositionPolicyId, make_reference_name(id), 1>>,
                                    <<StakeTokenPolicy, StakeTokenName, stake>>}),
                               SomeOutputDatum(UserPositionDatum(
                                    pd.pool_nft_policy, pd.pool_nft_name, user,
                                    make_reference_name(id), stake, StartTime, StartTime, 0))))
        IN  /\ ledger = {pool, Position(PositionId, 0, UserPkh, 1000),
                         Position(SecondPositionId, 1, second, 700)}
            /\ supply = Val({<<pd.pool_nft_policy, pd.pool_nft_name, 1>>,
                             <<PositionPolicyId, make_reference_name(PositionId), 1>>,
                             <<PositionPolicyId, make_reference_name(SecondPositionId), 1>>})
            /\ created = {[pd EXCEPT !.total_staked = 0, !.paused = 0]}
            /\ pause_log = IF paused = 1 THEN {<<pd.pool_nft_policy, pd.pool_nft_name>>}
                           ELSE {}
    /\ verdict = [msg |-> "", tx |-> EmptyTx, scripts |-> << >>]
    /\ phase = "idle"
    /\ ntx = 0
    /\ clock = StartTime
    /\ consumed = {}

NextRefund ==
    \/ SubmitForceRefund
    \/ SubmitPausePool
    \/ NextTransaction

SpecRefund == InitRefund /\ [][NextRefund]_vars

-----------------------------------------------------------------------------
(* C21: a ForceRefund on a position is applied only when the pool record   *)
(* has paused = 1, the pool's owner signs, the position's reference token  *)
(* goes to a script output at the pool's burn address and some output to   *)
(* the key address of the record's user_pkh holds at least stake_amount of *)
(* the stake token; the user need not sign; and no part of the stake goes  *)
(* elsewhere: the outputs to a staker's key hold together at least the     *)
(* stake of all the staker's positions that the transaction refunds.       *)
RECURSIVE PaidToKey(_, _, _, _)
PaidToKey(outs, pkh, pr, n) ==
    IF n = 0 THEN 0
    ELSE (IF outs[n].address.payment_credential
                = [tag |-> "PubKeyCredential", credential_hash |-> pkh]
          THEN Units(outs[n].value, pr.stake_token_policy, pr.stake_token_name)
          ELSE 0)
         + PaidToKey(outs, pkh, pr, n - 1)

RECURSIVE StakeOf(_)
StakeOf(E) ==
    IF E = {} THEN 0
    ELSE LET e == CHOOSE x \in E : TRUE IN Old(e).stake_amount + StakeOf(E \ {e})

ForceRefundChecks(e, pr) ==
    /\ pr.paused = 1
    /\ pr.owner \in applied.tx.signatories
    /\ SentToBurn(applied.tx, pr, Old(e).position_nft_name)
    /\ \E i \in 1..Len(applied.tx.outputs) :
        /\ applied.tx.outputs[i].address.payment_credential
                = [tag |-> "PubKeyCredential", credential_hash |-> Old(e).user_pkh]
        /\ Units(applied.tx.outputs[i].value, pr.stake_token_policy,
                 pr.stake_token_name) >= Old(e).stake_amount

C21_ForceRefund ==
    phase = "accepted" =>
        \A e \in PositionsUnder({"ForceRefund"}) :
            \E pr \in PoolRecords(applied.tx, e) :
                /\ ForceRefundChecks(e, pr)
                /\ PaidToKey(applied.tx.outputs, Old(e).user_pkh, pr,
                             Len(applied.tx.outputs))
                    >= StakeOf({x \in PositionsUnder({"ForceRefund"}) :
                                    Old(x).user_pkh = Old(e).user_pkh})

\* What the ForceRefund branch does enforce, for each position by itself.
C21_EachPositionChecked ==
    phase = "accepted" =>
        \A e \in PositionsUnder({"ForceRefund"}) :
            \E pr \in PoolRecords(applied.tx, e) : ForceRefundChecks(e, pr)

\* Two positions of one staker, 1000 and 700 staked, were refunded by one
\* transaction that the owner alone signed and that pays the staker 1000 and
\* the owner 700.
C21_OneOutputForTwo ==
    /\ phase = "accepted"
    /\ applied.tx.signatories = {OwnerPkh}
    /\ \E e \in PositionsUnder({"ForceRefund"}) :
        \E pr \in PoolRecords(applied.tx, e) :
            /\ StakeOf({x \in PositionsUnder({"ForceRefund"}) :
                            Old(x).user_pkh = Old(e).user_pkh}) = 1700
            /\ PaidToKey(applied.tx.outputs, Old(e).user_pkh, pr,
                         Len(applied.tx.outputs)) = 1000
            /\ PaidToKey(applied.tx.outputs, pr.owner, pr, Len(applied.tx.outputs)) = 700

-----------------------------------------------------------------------------
(* C22: a Register, Deposit, Withdraw, Claim, Compound or ForceRefund is   *)
(* applied only on an input at the staking validator that itself holds the *)
(* reference token its record names, under the pool's position policy; an  *)
(* output that somebody paid to the staking address with a record of their *)
(* own is never the subject of an applied transition.                      *)
PositionBranches == {"Register", "Deposit", "Withdraw", "Claim", "Compound", "ForceRefund"}

C22_TokenAuthenticatesRecord ==
    phase = "accepted" =>
        \A e \in PositionsUnder(PositionBranches) :
            \E pr \in PoolRecords(applied.tx, e) :
                Units(e.input.resolved.value, pr.position_nft_policy_hash,
                      Old(e).position_nft_name) >= 1

\* A Register was applied on an output that the transaction before paid to
\* the staking address with no token in it.
C22_RegisterOnBareRecord ==
    /\ phase = "accepted"
    /\ \E e \in PositionsUnder({"Register"}) :
        /\ e.input.resolved.value = EmptyValue
        /\ e.input.out_ref.id = TxIdOf(1)

-----------------------------------------------------------------------------
(* The transactions that mint, burn and replace position identity pairs.   *)
(* Each is built on a transaction that spends an input at a script: a      *)
(* position under Register or Withdraw, the pool under Stake, or an input  *)
(* at a script that is not of this repository.                             *)

SeqSet(q) == {q[i] : i \in 1..Len(q)}

\* the good shapes of the transactions built upon
GoodPositionShape(r, fee) ==
    PositionShape({UserPkh}, TRUE, GoodPlace(r), TRUE, "none",
                  IF r.tag = "Withdraw" THEN "burn" ELSE "wallet",
                  [amount |-> fee, to |-> "key", token |-> "own"], "tight")
PoolShapeFor(u, r, n) ==
    Shape({OwnerPkh}, GoodCoSpend(u, n), GoodContOf(r), GoodValue, GoodFee(r), GoodMint(r))

\* a token that is not a pool identity, and outputs that hold it beside the
\* ledger: at a foreign script with a record, with none, at a key with a
\* record
FakePoolName == Bytes(32, 77)
FakePoolDatum(staking) ==
    [PoolDatum(FakePoolName, MaxYieldRate, 2, 0, staking, 0, 0)
        EXCEPT !.pool_nft_policy = ForeignPolicyId]
FakePool(n, idx, address, dm) ==
    TxInInfo(TxOutRef(EnvTxId(n), idx),
             TxOut(address, Val({<<ForeignPolicyId, FakePoolName, 1>>}), dm))

\* how the redeemer's pool is shown: [policy, name, inputs, refs, staking]
PoolKinds == {"genuine", "absent", "fake", "nodatum", "keyheld", "split"}
ShownPool(utxos, n, kind) ==
    LET pools == PoolOutputs(utxos)
        pd == IF pools = {} THEN DummyPoolDatum ELSE RecordOf(CHOOSE w \in pools : TRUE)
        Shown(policy, name, ins, refs, staking) ==
            [policy |-> policy, name |-> name, ins |-> ins, refs |-> refs,
             staking |-> staking]
    IN  CASE kind = "genuine" ->
                Shown(pd.pool_nft_policy, pd.pool_nft_name, {}, pools,
                      pd.staking_validator_hash)
          [] kind = "absent" ->
                Shown(pd.pool_nft_policy, Other(pd.pool_nft_name), {}, {},
                      pd.staking_validator_hash)
          [] kind = "fake" ->
                Shown(ForeignPolicyId, FakePoolName, {},
                      {FakePool(n, 60, ScriptAddress(ForeignScriptHash),
                                SomeOutputDatum(FakePoolDatum(StakingValidatorHash)))},
                      StakingValidatorHash)
          [] kind = "nodatum" ->
                Shown(ForeignPolicyId, FakePoolName, {},
                      {FakePool(n, 60, ScriptAddress(ForeignScriptHash), NoOutputDatum)},
                      StakingValidatorHash)
          [] kind = "keyheld" ->
                Shown(ForeignPolicyId, FakePoolName, {},
                      {FakePool(n, 60, KeyAddress(UserPkh),
                                SomeOutputDatum(FakePoolDatum(StakingValidatorHash)))},
                      StakingValidatorHash)
          [] OTHER ->
                Shown(ForeignPolicyId, FakePoolName,
                      {FakePool(n, 61, KeyAddress(UserPkh),
                                SomeOutputDatum(FakePoolDatum(StakingHashA)))},
                      {FakePool(n, 60, ScriptAddress(ForeignScriptHash),
                                SomeOutputDatum(FakePoolDatum(StakingHashB)))},
                      StakingHashA)

\* the transaction built upon, with its scripts
Auths == {"register", "stake", "foreign", "hashA", "hashB", "key"}
HeldAuths == {"release", "withdraw", "foreign", "key"}
BareOutputs(utxos) ==
    {u \in PositionOutputs(utxos) :
        /\ IsSomeOutputDatum(u.resolved.datum)
        /\ \A a \in DOMAIN u.resolved.value : a[1] # PositionPolicyId}
HeldPositions(utxos) ==
    {u \in PositionOutputs(utxos) :
        /\ IsSomeOutputDatum(u.resolved.datum)
        /\ has_nft(u.resolved.value, PositionPolicyId, u.resolved.datum[1].position_nft_name)}

PositionBase(utxos, u, r, t) ==
    LET d == PositionRecordOf(u)
        pools == PoolsOf(utxos, d)
        pool == IF pools = {} THEN DummyPoolDatum
                ELSE (CHOOSE w \in pools : TRUE).resolved.datum[1]
        fee == FeeOwed(d, pool, r, RangeAt("tight", t)) IN
    [tx |-> PositionTx(utxos, u, r, GoodPositionShape(r, fee), t),
     scripts |-> PositionScripts(u, r)]

EnvBase(n, t, input) ==
    [tx |-> TxAt(<<input>>, << >>, << >>, EmptyValue, {UserPkh}, RangeAt("tight", t)),
     scripts |-> << >>]

AuthBases(utxos, n, t, auth) ==
    CASE auth = "register" ->
            {PositionBase(utxos, u, Register(PositionRecordOf(u).stake_amount), t) :
                u \in BareOutputs(utxos)}
      [] auth = "stake" ->
            {[tx |-> [PoolTx(u, Stake(RecordOf(u).min_stake),
                             PoolShapeFor(u, Stake(RecordOf(u).min_stake), n), n)
                        EXCEPT !.validity_range = RangeAt("tight", t)],
              scripts |-> PoolScripts(u, Stake(RecordOf(u).min_stake),
                                      PoolShapeFor(u, Stake(RecordOf(u).min_stake), n))] :
                u \in {w \in PoolOutputs(utxos) : IsSomeOutputDatum(w.resolved.datum)}}
      [] auth = "release" ->
            {PositionBase(utxos, u, Register(PositionRecordOf(u).stake_amount), t) :
                u \in HeldPositions(utxos)}
      [] auth = "withdraw" ->
            {PositionBase(utxos, u, Withdraw(PositionRecordOf(u).stake_amount), t) :
                u \in HeldPositions(utxos)}
      [] auth = "foreign" -> {EnvBase(n, t, EnvScriptInput(n, ForeignScriptHash))}
      [] auth = "hashA" -> {EnvBase(n, t, EnvScriptInput(n, StakingHashA))}
      [] auth = "hashB" -> {EnvBase(n, t, EnvScriptInput(n, StakingHashB))}
      [] OTHER -> {EnvBase(n, t, EnvKeyInput(n, UserPkh))}

\* outputs without the given assets
WithoutAssets(outs, assets) ==
    [i \in 1..Len(outs) |->
        TxOut(outs[i].address,
              [a \in DOMAIN outs[i].value \ assets |-> outs[i].value[a]],
              outs[i].datum)]

\* the transaction of base with inputs, reference inputs, outputs and a mint
\* added, and the assets taken out of its outputs
BuiltUpon(base, ins, refs, outs, mint, taken, script) ==
    [tx |-> [base.tx EXCEPT
                !.inputs = SortInputs(SeqSet(base.tx.inputs) \cup ins),
                !.reference_inputs =
                    SortInputs((SeqSet(base.tx.reference_inputs) \cup refs)
                                    \ (SeqSet(base.tx.inputs) \cup ins)),
                !.outputs = WithoutAssets(base.tx.outputs, taken) \o outs,
                !.mint = mint],
     scripts |-> base.scripts \o <<script>>]

\* the record written beside a new reference token
NewRecords == {"good", "stake0", "stakeneg", "staked0", "shortuser", "shortpolicy",
               "nodatum", "backclaim", "othername"}
NewRecord(shown, id, kind, t) ==
    LET d == UserPositionDatum(shown.policy, shown.name, UserPkh,
                               make_reference_name(id), 1000, t, t, 0) IN
    CASE kind = "good" -> SomeOutputDatum(d)
      [] kind = "stake0" -> SomeOutputDatum([d EXCEPT !.stake_amount = 0])
      [] kind = "stakeneg" -> SomeOutputDatum([d EXCEPT !.stake_amount = -1])
      [] kind = "staked0" -> SomeOutputDatum([d EXCEPT !.staked_at = 0])
      [] kind = "shortuser" -> SomeOutputDatum([d EXCEPT !.user_pkh = Short(@)])
      [] kind = "shortpolicy" -> SomeOutputDatum([d EXCEPT !.pool_nft_policy = Short(@)])
      [] kind = "backclaim" -> SomeOutputDatum([d EXCEPT !.last_claim = @ - 1])
      [] kind = "othername" -> SomeOutputDatum([d EXCEPT !.position_nft_name = Other(@)])
      [] OTHER -> NoOutputDatum

\* where the new reference token goes: the staking address the shown pool
\* names, a foreign script, a key, or (two units) two outputs of one each
NewPlaces == {"good", "foreign", "key"}
NewPlace(shown, place) ==
    CASE place = "good" -> ScriptAddress(shown.staking)
      [] place = "foreign" -> ScriptAddress(ForeignScriptHash)
      [] OTHER -> KeyAddress(shown.staking)

\* the mint maps tried for a new pair: [ref, user, extra] units
NewMints == {<<1, 1, 0>>, <<1, 0, 0>>, <<0, 1, 0>>, <<2, 1, 0>>, <<1, 2, 0>>, <<1, 1, 1>>,
             <<1, 0, 1>>, <<0, 1, 1>>}
SpareName(id) == Other(make_user_name(id))
PairMint(id, m) ==
    Val({x \in {<<PositionPolicyId, make_reference_name(id), m[1]>>,
                <<PositionPolicyId, make_user_name(id), m[2]>>,
                <<PositionPolicyId, SpareName(id), m[3]>>} : x[3] # 0})
\* the outputs that hold a new pair
PairOutputs(shown, id, m, place, record, t) ==
    [i \in 1..m[1] |->
        TxOut(NewPlace(shown, place),
              Val({<<PositionPolicyId, make_reference_name(id), 1>>}),
              NewRecord(shown, id, record, t))]
    \o (IF m[2] = 0 /\ m[3] = 0 THEN << >>
        ELSE <<TxOut(KeyAddress(UserPkh),
                     Val({x \in {<<PositionPolicyId, make_user_name(id), m[2]>>,
                                 <<PositionPolicyId, SpareName(id), m[3]>>} : x[3] # 0}),
                     NoOutputDatum)>>)

MintShape(auth, pool, m, place, record) ==
    [auth |-> auth, pool |-> pool, m |-> m, place |-> place, record |-> record]

PairMintShapes ==
    {MintShape(auth, pool, <<1, 1, 0>>, "good", "good") : auth \in Auths, pool \in PoolKinds}
    \cup {MintShape("register", "genuine", m, "good", "good") : m \in NewMints}
    \cup {MintShape("register", "genuine", <<1, 1, 0>>, place, "good") : place \in NewPlaces}
    \cup {MintShape("register", "genuine", <<1, 1, 0>>, "good", record) :
            record \in NewRecords}
    \cup {MintShape("foreign", "split", <<1, 1, 0>>, place, "good") : place \in NewPlaces}

NewPositionIds == {SecondPositionId}

SubmitMintPosition ==
    /\ Ready
    /\ \E s \in PairMintShapes, id \in NewPositionIds :
        \E base \in AuthBases(ledger, ntx + 1, clock, s.auth) :
            \E shown \in {ShownPool(ledger, ntx + 1, s.pool)} :
                SubmitAt(BuiltUpon(base, shown.ins, shown.refs,
                                   PairOutputs(shown, id, s.m, s.place, s.record, clock),
                                   PairMint(id, s.m), {},
                                   [purpose |-> Minting(PositionPolicyId),
                                    redeemer |-> MintPosition(id, shown.policy, shown.name)]),
                         clock)

\* a pool with one position registered against it, and an output that a
\* staker paid to the staking validator to register a second
InitPair ==
    LET pd == PoolDatum(sha2_256(Bytes(32, 3)), MaxYieldRate, 2, 1000,
                        StakingValidatorHash, 5000, 0)
        pool == TxInInfo(TxOutRef(Bytes(32, 4), 0),
                         TxOut(ScriptAddress(PoolValidatorHash),
                               PoolValue(pd, 1, 1000, 3), SomeOutputDatum(pd)))
        refName == make_reference_name(PositionId)
        userName == make_user_name(PositionId)
        position ==
            TxInInfo(TxOutRef(Bytes(32, 9), 0),
                     TxOut(ScriptAddress(StakingValidatorHash),
                           Val({<<PositionPolicyId, refName, 1>>,
                                <<StakeTokenPolicy, StakeTokenName, 1000>>}),
                           SomeOutputDatum(UserPositionDatum(
                                pd.pool_nft_policy, pd.pool_nft_name, UserPkh,
                                refName, 1000, StartTime, StartTime, 0))))
        wallet == TxInInfo(TxOutRef(Bytes(32, 9), 1),
                           TxOut(KeyAddress(UserPkh),
                                 Val({<<PositionPolicyId, userName, 1>>}),
                                 NoOutputDatum))
        bare == TxInInfo(TxOutRef(Bytes(32, 9), 2),
                         TxOut(ScriptAddress(StakingValidatorHash),
                               Val({<<StakeTokenPolicy, StakeTokenName, 1000>>}),
                               SomeOutputDatum(UserPositionDatum(
                                    pd.pool_nft_policy, pd.pool_nft_name, UserPkh,
                                    make_reference_name(SecondPositionId), 1000,
                                    StartTime, StartTime, 0))))
    IN  /\ ledger = {pool, position, wallet, bare}
        /\ supply = Val({<<pd.pool_nft_policy, pd.pool_nft_name, 1>>,
                         <<PositionPolicyId, refName, 1>>,
                         <<PositionPolicyId, userName, 1>>})
        /\ created = {[pd EXCEPT !.total_staked = 0]}
        /\ pause_log = {}
        /\ verdict = [msg |-> "", tx |-> EmptyTx, scripts |-> << >>]
        /\ phase = "idle"
        /\ ntx = 0
        /\ clock = StartTime
        /\ consumed = {}

\* the value of the triples of q, quantities of one asset added up and the
\* assets of quantity 0 left out
RECURSIVE NetOf(_, _, _)
NetOf(q, a, n) ==
    IF n = 0 THEN 0
    ELSE NetOf(q, a, n - 1) + (IF <<q[n][1], q[n][2]>> = a THEN q[n][3] ELSE 0)
NetVal(q) ==
    [a \in {b \in {<<q[i][1], q[i][2]>> : i \in 1..Len(q)} : NetOf(q, b, Len(q)) # 0} |->
        NetOf(q, a, Len(q))]
MintedIn(v) == [a \in {b \in DOMAIN v : v[b] > 0} |-> v[a]]
BurnedIn(v) == {a \in DOMAIN v : v[a] < 0}
\* the output that receives the tokens minted beside a reference token
ToHolder(v) ==
    IF DOMAIN v = {} THEN << >> ELSE <<TxOut(KeyAddress(UserPkh), v, NoOutputDatum)>>

\* the mint maps tried for a burn: [ref, user, extra] units
BurnMints == {<<-1, -1, 0>>, <<-1, 0, 0>>, <<0, -1, 0>>, <<-1, -1, 1>>, <<-1, 0, 1>>,
              <<0, -1, 1>>, <<-1, 1, 0>>, <<1, -1, 0>>}
BurnMint(id, m) ==
    NetVal(<<<<PositionPolicyId, make_reference_name(id), m[1]>>,
             <<PositionPolicyId, make_user_name(id), m[2]>>,
             <<PositionPolicyId, SpareName(id), m[3]>>>>)

BurnShape(auth, pool, m) == [auth |-> auth, pool |-> pool, m |-> m]
BurnShapes ==
    {BurnShape("release", "genuine", m) : m \in BurnMints}
    \cup {BurnShape(auth, pool, <<-1, -1, 0>>) :
            auth \in {"release", "withdraw"}, pool \in {"genuine", "absent", "fake"}}
    \cup {BurnShape(auth, pool, <<0, -1, 0>>) :
            auth \in {"foreign", "key"}, pool \in {"genuine", "fake"}}

\* the wallets a transaction that spends no position takes the user token from
WalletsFor(utxos, auth) ==
    IF auth \in {"release", "withdraw", "register"} THEN {} ELSE WalletsOf(utxos)
\* the tokens of the spent wallets that are not burned go back to the holder
Returned(wallets, mint) ==
    IF wallets = {} \/ <<PositionPolicyId, make_user_name(PositionId)>> \in BurnedIn(mint)
    THEN << >>
    ELSE <<TxOut(KeyAddress(UserPkh),
                 Val({<<PositionPolicyId, make_user_name(PositionId), 1>>}),
                 NoOutputDatum)>>

SubmitBurnPosition ==
    /\ Ready
    /\ \E s \in BurnShapes :
        \E base \in AuthBases(ledger, ntx + 1, clock, s.auth) :
            \E shown \in {ShownPool(ledger, ntx + 1, s.pool)},
               mint \in {BurnMint(PositionId, s.m)} :
                SubmitAt(BuiltUpon(base, shown.ins \cup WalletsFor(ledger, s.auth),
                                   shown.refs,
                                   ToHolder(MintedIn(mint))
                                        \o Returned(WalletsFor(ledger, s.auth), mint),
                                   mint, BurnedIn(mint),
                                   [purpose |-> Minting(PositionPolicyId),
                                    redeemer |-> BurnPosition(PositionId, shown.policy,
                                                              shown.name)]),
                         clock)

\* the mint maps tried for a replacement: [old user, new ref, new user, extra]
RemintMints == {<<-1, 1, 1, 0>>, <<0, 1, 1, 0>>, <<-1, 1, 1, 1>>, <<0, 1, 1, 1>>,
                <<1, 1, 1, 0>>, <<-1, 0, 1, 1>>, <<-1, 1, 0, 1>>, <<-1, 2, 1, 0>>,
                <<-1, 1, 2, 0>>}
RemintMint(old, new, m) ==
    NetVal(<<<<PositionPolicyId, make_user_name(old), m[1]>>,
             <<PositionPolicyId, make_reference_name(new), m[2]>>,
             <<PositionPolicyId, make_user_name(new), m[3]>>,
             <<PositionPolicyId, SpareName(new), m[4]>>>>)
\* the outputs of a replacement: each unit of the new reference token in an
\* output of its own, the other minted tokens to the holder
RemintOutputs(shown, new, mint, place, record, t) ==
    LET ref == <<PositionPolicyId, make_reference_name(new)>>
        units == IF ref \in DOMAIN mint /\ mint[ref] > 0 THEN mint[ref] ELSE 0
        rest == MintedIn(mint) IN
    [i \in 1..units |->
        TxOut(NewPlace(shown, place), Val({<<ref[1], ref[2], 1>>}),
              NewRecord(shown, new, record, t))]
    \o ToHolder([a \in DOMAIN rest \ {ref} |-> rest[a]])

RemintShape(auth, pool, m, place, record, new) ==
    [auth |-> auth, pool |-> pool, m |-> m, place |-> place, record |-> record,
     new |-> new]
RemintShapes ==
    {RemintShape("withdraw", "genuine", m, "good", "good", new) :
        m \in RemintMints, new \in {PositionId, SecondPositionId}}
    \cup {RemintShape(auth, pool, <<-1, 1, 1, 0>>, "good", "good", SecondPositionId) :
            auth \in HeldAuths, pool \in {"genuine", "absent", "fake"}}
    \cup {RemintShape("withdraw", "genuine", <<-1, 1, 1, 0>>, place, record,
                      SecondPositionId) :
            place \in NewPlaces, record \in {"good", "stake0", "nodatum", "backclaim"}}

SubmitRemintPosition ==
    /\ Ready
    /\ \E s \in RemintShapes :
        \E base \in AuthBases(ledger, ntx + 1, clock, s.auth) :
            \E shown \in {ShownPool(ledger, ntx + 1, s.pool)},
               mint \in {RemintMint(PositionId, s.new, s.m)} :
                SubmitAt(BuiltUpon(base, shown.ins \cup WalletsFor(ledger, s.auth),
                                   shown.refs,
                                   RemintOutputs(shown, s.new, mint, s.place, s.record, clock)
                                        \o Returned(WalletsFor(ledger, s.auth), mint),
                                   mint, BurnedIn(mint),
                                   [purpose |-> Minting(PositionPolicyId),
                                    redeemer |-> RemintPosition(PositionId, s.new,
                                                                shown.policy, shown.name)]),
                         clock)

NextPair ==
    \/ SubmitMintPosition
    \/ SubmitBurnPosition
    \/ SubmitRemintPosition
    \/ NextTransaction

SpecPair == InitPair /\ [][NextPair]_vars

-----------------------------------------------------------------------------
(* C23: who authorises the Position Identity policy.                       *)

\* the runs of the Position Identity policy in the transaction judged
PolicyRuns ==
    {i \in 1..Len(verdict.scripts) :
        verdict.scripts[i].purpose = Minting(PositionPolicyId)}
PolicyRedeemer == verdict.scripts[CHOOSE i \in PolicyRuns : TRUE].redeemer
PolicyApplied(tag) ==
    /\ phase = "accepted"
    /\ PolicyRuns # {}
    /\ PolicyRedeemer.tag = tag

Holds(u, policy, name) ==
    /\ <<policy, name>> \in DOMAIN u.resolved.value
    /\ u.resolved.value[<<policy, name>>] >= 1
AtScript(u) == u.resolved.address.payment_credential.tag = "ScriptCredential"
HashAt(u) == u.resolved.address.payment_credential.credential_hash

\* the first entry of q that holds the token and (record) carries an inline
\* record or (~record) sits at a script; 0 when there is none
RECURSIVE ScanFrom(_, _, _, _, _)
ScanFrom(q, policy, name, record, i) ==
    IF i > Len(q) THEN 0
    ELSE IF /\ Holds(q[i], policy, name)
            /\ IF record THEN q[i].resolved.datum # NoOutputDatum ELSE AtScript(q[i])
        THEN i
    ELSE ScanFrom(q, policy, name, record, i + 1)

\* spent inputs first, then reference inputs: the holder found, << >> if none
Resolved(tx, policy, name, record) ==
    LET i == ScanFrom(tx.inputs, policy, name, record, 1)
        j == ScanFrom(tx.reference_inputs, policy, name, record, 1) IN
    IF i # 0 THEN <<tx.inputs[i]>>
    ELSE IF j # 0 THEN <<tx.reference_inputs[j]>>
    ELSE << >>

\* some spent input sits at the script address of the holder of the pool
\* identity token or at the staking_validator_hash of the pool record
AuthorisedBy(tx, policy, name) ==
    LET record == Resolved(tx, policy, name, TRUE)
        holder == Resolved(tx, policy, name, FALSE) IN
    /\ record # << >>
    /\ holder # << >>
    /\ \E i \in 1..Len(tx.inputs) :
        /\ AtScript(tx.inputs[i])
        /\ \/ HashAt(tx.inputs[i]) = HashAt(holder[1])
           \/ HashAt(tx.inputs[i]) = record[1].resolved.datum[1].staking_validator_hash

\* C23: an applied MintPosition, BurnPosition or RemintPosition names a pool
\* identity token that a spent input, else a reference input, holds with an
\* inline record, and spends an input at the script address of the token's
\* holder or at the staking_validator_hash of that record; a run that stops
\* with "Pool or staking validator must authorize" has the record and no
\* such input.
C23_Authorisation ==
    /\ (phase = "accepted" /\ PolicyRuns # {})
        => /\ PolicyRedeemer.tag \in {"MintPosition", "BurnPosition", "RemintPosition"}
           /\ AuthorisedBy(verdict.tx, PolicyRedeemer.pool_nft_policy,
                           PolicyRedeemer.pool_nft_name)
    /\ (phase = "rejected" /\ PolicyRuns # {}
            /\ verdict.msg = "Pool or staking validator must authorize")
        => /\ Resolved(verdict.tx, PolicyRedeemer.pool_nft_policy,
                       PolicyRedeemer.pool_nft_name, TRUE) # << >>
           /\ ~AuthorisedBy(verdict.tx, PolicyRedeemer.pool_nft_policy,
                            PolicyRedeemer.pool_nft_name)

\* a pair minted while the pool itself is spent (Stake), the record read from
\* the spent input
C23_Witness ==
    /\ PolicyApplied("MintPosition")
    /\ ScanFrom(verdict.tx.inputs, PolicyRedeemer.pool_nft_policy,
                PolicyRedeemer.pool_nft_name, TRUE, 1) # 0
    /\ \E i \in 1..Len(verdict.tx.inputs) : HashAt(verdict.tx.inputs[i]) = PoolValidatorHash

\* each of the three is rejected for want of an authorising input, and for
\* want of a holder with a record
C23_Unauthorised ==
    /\ phase = "rejected"
    /\ PolicyRuns # {}
    /\ verdict.msg = "Pool or staking validator must authorize"
    /\ PolicyRedeemer.tag = "RemintPosition"
C23_NoRecord ==
    /\ phase = "rejected"
    /\ PolicyRuns # {}
    /\ verdict.msg = "Pool config not found"
    /\ Resolved(verdict.tx, PolicyRedeemer.pool_nft_policy,
                PolicyRedeemer.pool_nft_name, TRUE) = << >>
    /\ Resolved(verdict.tx, PolicyRedeemer.pool_nft_policy,
                PolicyRedeemer.pool_nft_name, FALSE) # << >>
\* the record is taken from a spent input at a key address while a reference
\* input holds the token at a script
C23_RecordFromSpentInput ==
    /\ PolicyApplied("MintPosition")
    /\ ~AtScript(Resolved(verdict.tx, PolicyRedeemer.pool_nft_policy,
                          PolicyRedeemer.pool_nft_name, TRUE)[1])

-----------------------------------------------------------------------------
(* C24: what MintPosition requires of the mint map and of the output that  *)
(* receives the reference token.                                           *)

\* the entries of the policy in the mint map of tx, as <<name, quantity>>
PolicyEntries(tx) ==
    {<<a[2], tx.mint[a]>> : a \in {b \in DOMAIN tx.mint : b[1] = PositionPolicyId}}
ReferenceName(id) == <<4 + id[1], 2000 + id[2]>>
UserName(id) == <<4 + id[1], 3000 + id[2]>>
\* the outputs of tx that hold exactly one unit of the reference token of id
ReferenceOutputs(tx, id) ==
    {i \in 1..Len(tx.outputs) :
        /\ <<PositionPolicyId, ReferenceName(id)>> \in DOMAIN tx.outputs[i].value
        /\ tx.outputs[i].value[<<PositionPolicyId, ReferenceName(id)>>] = 1}
\* exactly one output holds one unit of the reference token of id, at the
\* staking validator of the pool record, with a well-formed position record
PlacedAsRequired(tx, id, policy, name) ==
    /\ Cardinality(ReferenceOutputs(tx, id)) = 1
    /\ \A i \in ReferenceOutputs(tx, id) :
        /\ tx.outputs[i].address.payment_credential.tag = "ScriptCredential"
        /\ tx.outputs[i].address.payment_credential.credential_hash
            = Resolved(tx, policy, name, TRUE)[1].resolved.datum[1].staking_validator_hash
        /\ tx.outputs[i].datum # NoOutputDatum
        /\ tx.outputs[i].datum[1].pool_nft_policy[1] = 28
        /\ tx.outputs[i].datum[1].user_pkh[1] = 28
        /\ tx.outputs[i].datum[1].stake_amount > 0
        /\ tx.outputs[i].datum[1].staked_at > 0

C24_ZeroStakeRejected ==
    /\ phase = "rejected"
    /\ PolicyRuns # {}
    /\ verdict.msg = "Invalid reference NFT output"
    /\ \E i \in ReferenceOutputs(verdict.tx, SecondPositionId) :
        /\ verdict.tx.outputs[i].datum # NoOutputDatum
        /\ verdict.tx.outputs[i].datum[1].stake_amount = 0

-----------------------------------------------------------------------------
(* C25: the mint maps of BurnPosition and RemintPosition.                  *)

\* C25: an applied BurnPosition(id) has, under the policy, exactly the two
\* entries -1 of the reference name of id and -1 of the user name of id; an
\* applied RemintPosition(old_id, new_id) has exactly the three entries -1 of
\* the user name of old_id, +1 of the reference name of new_id and +1 of the
\* user name of new_id, the new reference token is placed as MintPosition
\* requires, and old_id differs from new_id.
C25_BurnAndRemint ==
    /\ PolicyApplied("BurnPosition")
        => PolicyEntries(verdict.tx)
            = {<<ReferenceName(PolicyRedeemer.position_id), -1>>,
               <<UserName(PolicyRedeemer.position_id), -1>>}
    /\ PolicyApplied("RemintPosition")
        => /\ PolicyEntries(verdict.tx)
                = {<<UserName(PolicyRedeemer.old_position_id), -1>>,
                   <<ReferenceName(PolicyRedeemer.new_position_id), 1>>,
                   <<UserName(PolicyRedeemer.new_position_id), 1>>}
           /\ Cardinality(PolicyEntries(verdict.tx)) = 3
           /\ PlacedAsRequired(verdict.tx, PolicyRedeemer.new_position_id,
                               PolicyRedeemer.pool_nft_policy, PolicyRedeemer.pool_nft_name)
           /\ PolicyRedeemer.old_position_id # PolicyRedeemer.new_position_id

\* a pair burned: neither token of the position is left in the ledger
C25_Witness ==
    /\ PolicyApplied("BurnPosition")
    /\ \A u \in ledger :
        /\ ~Holds(u, PositionPolicyId, ReferenceName(PositionId))
        /\ ~Holds(u, PositionPolicyId, UserName(PositionId))
\* a position replaced beside a Withdraw: the old user token is gone and the
\* new pair is in the ledger
C25_Reminted ==
    /\ PolicyApplied("RemintPosition")
    /\ \E i \in 1..Len(verdict.scripts) : verdict.scripts[i].redeemer.tag = "Withdraw"
    /\ \A u \in ledger : ~Holds(u, PositionPolicyId, UserName(PositionId))
    /\ \E u \in ledger : Holds(u, PositionPolicyId, ReferenceName(SecondPositionId))
    /\ \E u \in ledger : Holds(u, PositionPolicyId, UserName(SecondPositionId))
\* an authorised RemintPosition(id, id) is stopped by the policy
C25_SameIdRejected ==
    /\ phase = "rejected"
    /\ PolicyRuns # {}
    /\ PolicyRedeemer.tag = "RemintPosition"
    /\ PolicyRedeemer.old_position_id = PolicyRedeemer.new_position_id
    /\ verdict.msg \in {"Remint must have exactly 3 token operations",
                        "Must burn exactly 1 old user NFT"}
\* a burn with a third entry is stopped
C25_ThirdEntryRejected ==
    /\ phase = "rejected"
    /\ PolicyRuns # {}
    /\ verdict.msg = "Only 2 tokens should be burned"

-----------------------------------------------------------------------------
(* C26, C27: the sign of stake_amount and the order of last_claim and      *)
(* staked_at in the records held with their identity token.                *)

\* the position records held at the staking validator beside the reference
\* token they name
HeldRecords ==
    {u.resolved.datum[1] :
        u \in {w \in ledger :
                /\ IsStakingInput(w)
                /\ w.resolved.datum # NoOutputDatum
                /\ Units(w.resolved.value, PositionPolicyId,
                         w.resolved.datum[1].position_nft_name) >= 1}}

\* C26: in every reachable state every position record held with its
\* identity token at the staking validator has stake_amount >= 0.
C26_StakeNeverNegative == \A d \in HeldRecords : d.stake_amount >= 0

\* What holds: an applied Deposit, Claim or Compound on a held record of
\* stake_amount >= 0 continues it with stake_amount >= 0.
C26_KeptByDepositClaimCompound ==
    phase = "accepted" =>
        \A e \in PositionsUnder({"Deposit", "Claim", "Compound"}) :
            (HoldsReferenceToken(e) /\ Old(e).stake_amount >= 0) =>
                \A pr \in PoolRecords(applied.tx, e) :
                    \A o \in PositionContinuations(e, pr) :
                        o.datum # NoOutputDatum => o.datum[1].stake_amount >= 0

\* A Register was applied on a held record of stake_amount > 0 and left the
\* token beside a record of stake_amount < 0.
C26_NegativeAfterRegister ==
    /\ phase = "accepted"
    /\ \E e \in PositionsUnder({"Register"}) :
        /\ HoldsReferenceToken(e)
        /\ Old(e).stake_amount > 0
    /\ \E d \in HeldRecords : d.stake_amount < 0


\* C27: in every reachable state every position record held with its
\* identity token at the staking validator has last_claim >= staked_at.
C27_ClaimNotBeforeStake == \A d \in HeldRecords : d.last_claim >= d.staked_at

\* What holds: an applied Deposit, Claim or Compound on a held record with
\* last_claim >= staked_at continues it with last_claim >= staked_at.
C27_KeptByDepositClaimCompound ==
    phase = "accepted" =>
        \A e \in PositionsUnder({"Deposit", "Claim", "Compound"}) :
            (HoldsReferenceToken(e) /\ Old(e).last_claim >= Old(e).staked_at) =>
                \A pr \in PoolRecords(applied.tx, e) :
                    \A o \in PositionContinuations(e, pr) :
                        o.datum # NoOutputDatum
                            => o.datum[1].last_claim >= o.datum[1].staked_at

\* A MintPosition was applied whose reference token sits beside a record with
\* last_claim < staked_at.
C27_MintedWithEarlierClaim ==
    /\ PolicyApplied("MintPosition")
    /\ \E i \in ReferenceOutputs(verdict.tx, PolicyRedeemer.position_id) :
        /\ verdict.tx.outputs[i].datum # NoOutputDatum
        /\ verdict.tx.outputs[i].datum[1].last_claim
            < verdict.tx.outputs[i].datum[1].staked_at
    /\ \E d \in HeldRecords : d.last_claim < d.staked_at

-----------------------------------------------------------------------------
(* C28: the values of paused.                                              *)

\* the pool records held at a script beside the identity token they name
HeldPoolRecords ==
    {u.resolved.datum[1] :
        u \in {w \in ledger :
                /\ w.resolved.address.payment_credential.tag = "ScriptCredential"
                /\ w.resolved.datum # NoOutputDatum
                /\ \E a \in DOMAIN w.resolved.value : a[1] = PoolNftPolicyId
                /\ "paused" \in DOMAIN w.resolved.datum[1]
                /\ Units(w.resolved.value, PoolNftPolicyId,
                         w.resolved.datum[1].pool_nft_name) >= 1}}

\* C28: in every reachable state the record of every pool created through
\* the Pool Identity Mint has paused = 0 or paused = 1.
C28_PausedIsFlag == \A d \in HeldPoolRecords : d.paused \in {0, 1}

\* What holds: an applied PausePool(flag) has flag 0 or 1 and continues the
\* record with paused = flag; every other applied transition that continues
\* the record leaves paused as it was.
C28_PausePoolSetsFlag ==
    phase = "accepted" =>
        \A e \in Spent \ SpentUnder({"ClosePool"}) :
            \A o \in Continuations(e) :
                /\ o.datum # NoOutputDatum
                /\ IF e.redeemer.tag = "PausePool"
                   THEN /\ e.redeemer.pause \in {0, 1}
                        /\ o.datum[1].paused = e.redeemer.pause
                   ELSE o.datum[1].paused = Old(e).paused

\* A Pool Identity Mint was applied that left the token beside a record with
\* paused = 2.
C28_CreatedWithTwo ==
    /\ phase = "accepted"
    /\ \E k \in 1..Len(verdict.scripts) :
        /\ verdict.scripts[k].purpose = Minting(PoolNftPolicyId)
        /\ verdict.scripts[k].redeemer.tag = "Mint"
    /\ \E d \in HeldPoolRecords : d.paused = 2
\* A PausePool(2) was rejected for its flag.
C28_FlagTwoRejected == RejectedWith("Pause must be 0 or 1", "PausePool")

-----------------------------------------------------------------------------
(* C29: the range of yield_rate, from the mint of a pool onwards.          *)

\* a ledger with the platform's authority token, in which pools are created
\* through the Pool Identity Mint and then taken through their transitions
NextCreated ==
    \/ SubmitMintPool
    \/ NextPool

SpecCreated == Init /\ [][NextCreated]_vars

C29_OverMaximumRejected == RejectedWith("Rate exceeds maximum", "UpdatePool")
C29_ZeroRejected == RejectedWith("Rate must be positive", "UpdatePool")
C29_MintOverMaximumRejected ==
    /\ phase = "rejected"
    /\ \E k \in 1..Len(verdict.scripts) :
        /\ verdict.scripts[k].purpose = Minting(PoolNftPolicyId)
        /\ verdict.scripts[k].redeemer.tag = "Mint"
    /\ \E i \in 1..Len(verdict.tx.outputs) :
        /\ verdict.tx.outputs[i].datum # NoOutputDatum
        /\ "yield_rate" \in DOMAIN verdict.tx.outputs[i].datum[1]
        /\ verdict.tx.outputs[i].datum[1].yield_rate = 10001

-----------------------------------------------------------------------------
(* C30: transactions built against one pool output.                        *)
(* Each submitter builds its transaction off the pool output it sees; the  *)
(* ledger takes the submissions one at a time.  Of the transactions built  *)
(* against one output, those that reach the ledger after another has       *)
(* consumed it are built against an output in consumed.                    *)

StaleRedeemers(u) ==
    {Stake(RecordOf(u).min_stake), Unstake(1), PausePool(1), PausePool(0)}

SubmitStale ==
    /\ Ready
    /\ \E u \in {c \in consumed : IsPoolInput(c) /\ IsSomeOutputDatum(c.resolved.datum)} :
        \E r \in StaleRedeemers(u) :
            SubmitPool(u, r, PoolShapeFor(u, r, ntx + 1))

NextRace ==
    \/ SubmitStake
    \/ SubmitUnstake
    \/ SubmitPausePool
    \/ SubmitStale
    \/ NextTransaction

SpecRace == InitPool /\ [][NextRace]_vars

\* the outputs of utxos at the pool validator that hold the identity token
\* the record d names
PoolsNamed(utxos, d) ==
    {w \in utxos :
        /\ IsPoolInput(w)
        /\ Units(w.resolved.value, d.pool_nft_policy, d.pool_nft_name) >= 1}

\* total_staked and paused of record d after the transition r
StakedAfter(d, r) ==
    CASE r.tag = "Stake" -> d.total_staked + r.amount
      [] r.tag = "Unstake" -> d.total_staked - r.amount
      [] OTHER -> d.total_staked
PausedAfter(d, r) == IF r.tag = "PausePool" THEN r.pause ELSE d.paused

\* what a step that applies a transaction does to the pool outputs it spends
AppliedOnce ==
    phase' = "accepted" =>
        /\ \A i \in 1..Len(verdict'.tx.inputs) :
            /\ verdict'.tx.inputs[i] \notin consumed
            /\ verdict'.tx.inputs[i] \notin ledger'
            /\ IsPoolInput(verdict'.tx.inputs[i]) => verdict'.tx.inputs[i] \in ledger
        /\ \A i \in 1..Len(verdict'.tx.inputs), k \in 1..Len(verdict'.scripts) :
            LET u == verdict'.tx.inputs[i]
                r == verdict'.scripts[k].redeemer IN
            (/\ IsPoolInput(u)
             /\ verdict'.scripts[k].purpose = Spending(u.out_ref)
             /\ r.tag \in {"Stake", "Unstake", "PausePool"})
                => /\ PoolsNamed(ledger, u.resolved.datum[1]) = {u}
                   /\ Cardinality(PoolsNamed(ledger', u.resolved.datum[1])) = 1
                   /\ \A w \in PoolsNamed(ledger', u.resolved.datum[1]) :
                        /\ w.resolved.datum # NoOutputDatum
                        /\ w.resolved.datum[1].total_staked
                            = StakedAfter(u.resolved.datum[1], r)
                        /\ w.resolved.datum[1].paused = PausedAfter(u.resolved.datum[1], r)
\* a rejected submission changes nothing
RejectedWhole ==
    phase' = "rejected" => ledger' = ledger /\ consumed' = consumed /\ supply' = supply

C30_StakeThenStalePause ==
    /\ phase = "rejected"
    /\ verdict.msg = "Input already spent"
    /\ \E i \in 1..Len(verdict.tx.inputs), k \in 1..Len(verdict.scripts) :
        LET u == verdict.tx.inputs[i] IN
        /\ u \in consumed
        /\ IsPoolInput(u)
        /\ verdict.scripts[k].purpose = Spending(u.out_ref)
        /\ verdict.scripts[k].redeemer = PausePool(1)
        /\ \E w \in PoolsNamed(ledger, u.resolved.datum[1]) :
            /\ w.resolved.datum[1].total_staked > u.resolved.datum[1].total_staked
            /\ w.resolved.datum[1].paused = 0
\* a PausePool(1) and a Stake built against one pool output: the PausePool(1)
\* was applied, the Stake is rejected and total_staked is as it was
C30_PauseThenStaleStake ==
    /\ phase = "rejected"
    /\ verdict.msg = "Input already spent"
    /\ \E i \in 1..Len(verdict.tx.inputs), k \in 1..Len(verdict.scripts) :
        LET u == verdict.tx.inputs[i] IN
        /\ u \in consumed
        /\ IsPoolInput(u)
        /\ u.resolved.datum[1].paused = 0
        /\ verdict.scripts[k].purpose = Spending(u.out_ref)
        /\ verdict.scripts[k].redeemer.tag = "Stake"
        /\ \E w \in PoolsNamed(ledger, u.resolved.datum[1]) :
            /\ w.resolved.datum[1].total_staked = u.resolved.datum[1].total_staked
            /\ w.resolved.datum[1].paused = 1
\* two Stakes applied one after the other, the second built against the
\* output the first left: total_staked has grown by both amounts
C30_TwoStakesInTurn ==
    /\ phase = "accepted"
    /\ ntx = 2
    /\ \E e \in SpentUnder({"Stake"}) :
        /\ e.input.out_ref.id = TxIdOf(1)
        /\ e.redeemer.amount = 2
        /\ Old(e).total_staked = 2
        /\ \E w \in PoolsNamed(ledger, Old(e)) : w.resolved.datum[1].total_staked = 4

-----------------------------------------------------------------------------
C31_FeeInStakeTokensRejected ==
    /\ RejectedWith("Fee not paid", "FundTreasury")
    /\ \E i \in 1..Len(verdict.tx.outputs) :
        /\ verdict.tx.outputs[i].address = KeyAddress(FeePkh)
        /\ Units(verdict.tx.outputs[i].value, StakeTokenPolicy, StakeTokenName) >= 1
\* a FundTreasury that adds one reward token fewer than amt was rejected
C31_ShortFundingRejected == RejectedWith("Reward tokens not added", "FundTreasury")
\* a FundTreasury the owner did not sign was rejected
C31_UnsignedRejected == RejectedWith("Owner signature required", "FundTreasury")
\* a FundTreasury(0) was rejected
C31_ZeroRejected == RejectedWith("Amount must be positive", "FundTreasury")

\* the reward tokens a value holds for the pool whose record is d
RewardUnits(v, d) == Units(v, d.reward_token_policy, d.reward_token_name)
\* the stake tokens a value holds for the pool whose record is d
StakeUnits(v, d) == Units(v, d.stake_token_policy, d.stake_token_name)

(* C32: a Claim on a pool is applied only when the continuing output holds *)
(* strictly fewer reward tokens than the spent pool input, and a           *)
(* WithdrawTreasury(amt) only when amt > 0 and the continuing output holds *)
(* at least amt fewer reward tokens than the spent pool input.             *)
C32_RewardOutflow ==
    phase = "accepted" =>
        /\ \A e \in SpentUnder({"Claim"}) :
            \E o \in Continuations(e) :
                RewardUnits(o.value, Old(e)) < RewardUnits(e.input.resolved.value, Old(e))
        /\ \A e \in SpentUnder({"WithdrawTreasury"}) :
            /\ e.redeemer.amount > 0
            /\ \E o \in Continuations(e) :
                RewardUnits(e.input.resolved.value, Old(e)) - RewardUnits(o.value, Old(e))
                    >= e.redeemer.amount

\* A WithdrawTreasury of part of the pool's reward tokens was applied.
C32_Witness ==
    /\ phase = "accepted"
    /\ \E e \in SpentUnder({"WithdrawTreasury"}) :
        /\ e.redeemer.amount < RewardUnits(e.input.resolved.value, Old(e))
        /\ \E o \in Continuations(e) :
            RewardUnits(o.value, Old(e))
                = RewardUnits(e.input.resolved.value, Old(e)) - e.redeemer.amount
\* a Claim that took one reward token out of the pool was applied
C32_ClaimApplied ==
    /\ phase = "accepted"
    /\ \E e \in SpentUnder({"Claim"}) :
        \E o \in Continuations(e) :
            RewardUnits(o.value, Old(e)) = RewardUnits(e.input.resolved.value, Old(e)) - 1
\* a Claim that leaves the pool's reward tokens as they were was rejected
C32_EmptyClaimRejected == RejectedWith("No rewards claimed", "Claim")
\* a WithdrawTreasury that removes fewer than amt was rejected
C32_ShortWithdrawalRejected == RejectedWith("Reward tokens not removed", "WithdrawTreasury")
\* a WithdrawTreasury(0) the owner signed was rejected
C32_ZeroRejected == RejectedWith("Amount must be positive", "WithdrawTreasury")

-----------------------------------------------------------------------------
\* the hash and key fields of a pool record that valid_datum measures
MeasuredFields ==
    {"owner", "staking_validator_hash", "position_nft_policy_hash",
     "platform_fee_pkh", "burn_address_hash"}
\* the policies of the stake token and of the reward token
TokenPolicyFields == {"stake_token_policy", "reward_token_policy"}

\* the Pool Identity Mint redeemers of the applied transaction, each with a
\* designated output that carries a record
RecordMints ==
    {m \in Ran(PoolNftPolicyId, "Mint") :
        InRange(m.redeemer) /\ IsSomeOutputDatum(Target(m.redeemer).datum)}

(* C33: a Pool Identity Mint is applied only when every hash and key field *)
(* of the new record (owner, staking validator, position policy, platform  *)
(* fee key, burn address, stake-token policy, reward-token policy) is 28   *)
(* bytes long, the redeemer's pool validator hash is 28 bytes, and the     *)
(* authority policy and name it supplies are 28 and 32 bytes.              *)
C33_LengthsChecked ==
    phase = "accepted" =>
        \A m \in Ran(PoolNftPolicyId, "Mint") :
            /\ m \in RecordMints
            /\ \A f \in MeasuredFields \cup TokenPolicyFields :
                    Target(m.redeemer).datum[1][f][1] = 28
            /\ m.redeemer.pool_validator_hash[1] = 28
            /\ m.redeemer.platform_authority_nft_policy[1] = 28
            /\ m.redeemer.platform_authority_nft_name[1] = 32

\* what the policy does check: the five measured fields and the redeemer's
\* three identifiers
C33_MeasuredLengths ==
    phase = "accepted" =>
        \A m \in Ran(PoolNftPolicyId, "Mint") :
            /\ m \in RecordMints
            /\ \A f \in MeasuredFields : Target(m.redeemer).datum[1][f][1] = 28
            /\ m.redeemer.pool_validator_hash[1] = 28
            /\ m.redeemer.platform_authority_nft_policy[1] = 28
            /\ m.redeemer.platform_authority_nft_name[1] = 32

\* a pool was created whose record names a stake-token policy of 27 bytes
C33_ShortStakePolicyMinted ==
    /\ phase = "accepted"
    /\ \E m \in RecordMints : Target(m.redeemer).datum[1].stake_token_policy[1] = 27
\* a pool was created whose record names a reward-token policy of 27 bytes
C33_ShortRewardPolicyMinted ==
    /\ phase = "accepted"
    /\ \E m \in RecordMints : Target(m.redeemer).datum[1].reward_token_policy[1] = 27
\* a mint whose record names a burn address of 27 bytes was rejected
C33_ShortBurnAddressRejected ==
    /\ RejectedWith("Invalid pool datum", "Mint")
    /\ \E i \in 1..Len(verdict.tx.outputs) :
        /\ IsSomeOutputDatum(verdict.tx.outputs[i].datum)
        /\ verdict.tx.outputs[i].datum[1].burn_address_hash[1] = 27
\* a mint that declares a pool validator hash of 27 bytes was rejected
C33_ShortDeclaredHashRejected == RejectedWith("Invalid pool_validator_hash length", "Mint")
\* a mint that supplies an authority policy of 27 bytes was rejected
C33_ShortAuthorityPolicyRejected == RejectedWith("Invalid authority policy length", "Mint")
\* a mint that supplies an authority name of 31 bytes was rejected
C33_ShortAuthorityNameRejected == RejectedWith("Invalid authority name length", "Mint")

-----------------------------------------------------------------------------
\* the redeemers under which a pool's stake-token balance may go down, and
\* those under which its reward-token balance may
StakeOutflows == {"Unstake", "ClosePool"}
RewardOutflows == {"Claim", "WithdrawTreasury", "ClosePool"}

(* C34: the stake-token balance of a pool goes down only in an applied     *)
(* Unstake or ClosePool and its reward-token balance only in an applied    *)
(* Claim, WithdrawTreasury or ClosePool: every applied Stake, UpdatePool,  *)
(* PausePool and FundTreasury continues the pool with at least the stake   *)
(* tokens and the reward tokens of the spent pool input.                   *)
C34_BalancesKept ==
    phase = "accepted" =>
        \A e \in Spent :
            \A o \in Continuations(e) :
                /\ e.redeemer.tag \notin StakeOutflows
                    => StakeUnits(o.value, Old(e)) >= StakeUnits(e.input.resolved.value, Old(e))
                /\ e.redeemer.tag \notin RewardOutflows
                    => RewardUnits(o.value, Old(e)) >= RewardUnits(e.input.resolved.value, Old(e))

\* what the branches do keep: FundTreasury never lowers the reward balance
C34_FundKeepsRewards ==
    phase = "accepted" =>
        \A e \in SpentUnder({"FundTreasury"}) :
            \A o \in Continuations(e) :
                RewardUnits(o.value, Old(e)) >= RewardUnits(e.input.resolved.value, Old(e))

\* the last transaction, applied under redeemer tag with the pool input and
\* no other, took a stake token out of the pool
DrainedStake(tag) ==
    /\ phase = "accepted"
    /\ \A i \in 1..Len(applied.tx.inputs) : IsPoolInput(applied.tx.inputs[i])
    /\ \E e \in SpentUnder({tag}) :
        \E o \in Continuations(e) :
            StakeUnits(o.value, Old(e)) = StakeUnits(e.input.resolved.value, Old(e)) - 1
\* the same for a reward token
DrainedReward(tag) ==
    /\ phase = "accepted"
    /\ \A i \in 1..Len(applied.tx.inputs) : IsPoolInput(applied.tx.inputs[i])
    /\ \E e \in SpentUnder({tag}) :
        \E o \in Continuations(e) :
            RewardUnits(o.value, Old(e)) = RewardUnits(e.input.resolved.value, Old(e)) - 1

\* a Stake the owner did not sign took a reward token out of the pool
C34_StakeDrainsRewards == DrainedReward("Stake") /\ OwnerPkh \notin applied.tx.signatories
\* a Stake the owner did not sign took a stake token out of the pool while
\* raising total_staked
C34_StakeDrainsStake == DrainedStake("Stake") /\ OwnerPkh \notin applied.tx.signatories
\* an UpdatePool took a stake token out of the pool
C34_UpdatePoolDrainsStake == DrainedStake("UpdatePool")
\* a PausePool took a reward token out of the pool
C34_PausePoolDrainsRewards == DrainedReward("PausePool")
\* a FundTreasury took a stake token out of the pool
C34_FundTreasuryDrainsStake == DrainedStake("FundTreasury")

-----------------------------------------------------------------------------
(* The transactions that spend a pool output and an output at the staking  *)
(* validator together: the pool under Unstake or Claim, which ask for the  *)
(* staking validator's input, and that input under each of the staking     *)
(* validator's redeemers.                                                  *)

\* the outputs at the staking validator that carry a record, with the
\* position token or without
RecordedOutputs(utxos) ==
    {u \in PositionOutputs(utxos) : IsSomeOutputDatum(u.resolved.datum)}

\* the continuing pool output for redeemer r, with stake and reward tokens
\* taken out beyond the redeemer's natural effect
PoolContinuing(u, r, ds, dr) ==
    LET d == RecordOf(u) IN
    TxOut(u.resolved.address,
          PoolValue(d, 1,
                    get_token_amount(u.resolved.value, d.stake_token_policy,
                                     d.stake_token_name) + Effect(r)[1] - ds,
                    get_token_amount(u.resolved.value, d.reward_token_policy,
                                     d.reward_token_name) + Effect(r)[2] - dr),
          SomeOutputDatum(Expected(d, r)))

\* the transaction that spends pool output w under rp beside the staking
\* validator's output u under r, reaching the ledger at time t
JointTx(utxos, w, rp, dr, u, r, t) ==
    BuiltUpon(PositionBase(utxos, u, r, t), {w}, {},
              <<PoolContinuing(w, rp, 0, dr)>>, EmptyValue, {},
              [purpose |-> Spending(w.out_ref), redeemer |-> rp])

UnstakeAmounts == {1, 1000, 1001}
\* the redeemers tried on the staking validator's output beside an Unstake
ReleaseRedeemers(u) ==
    {Withdraw(0), Withdraw(1), Register(PositionRecordOf(u).stake_amount),
     Deposit(2), Claim, ForceRefund}

SubmitUnstakeWith ==
    /\ Ready
    /\ \E w \in PoolStates(ledger), a \in UnstakeAmounts, u \in RecordedOutputs(ledger),
          t \in Later :
        \E r \in ReleaseRedeemers(u) :
            \E p \in {JointTx(ledger, w, Unstake(a), 0, u, r, t)} : SubmitAt(p, t)

\* the reward tokens taken out of the pool beyond the one of Effect(Claim)
ClaimExtras == {0, 1, 2}

SubmitClaimWith ==
    /\ Ready
    /\ \E w \in PoolStates(ledger), k \in ClaimExtras, u \in RecordedOutputs(ledger),
          t \in Later :
        /\ get_token_amount(w.resolved.value, RecordOf(w).reward_token_policy,
                            RecordOf(w).reward_token_name) > k
        /\ \E r \in {Claim, Compound, Register(PositionRecordOf(u).stake_amount)} :
            \E p \in {JointTx(ledger, w, Claim, k, u, r, t)} : SubmitAt(p, t)

\* a Stake on the pool beside a Deposit of the same amount, or beside a
\* Register, on the staking validator's output
StakeAmounts == {2, 1000}

SubmitStakeWith ==
    /\ Ready
    /\ \E w \in PoolStates(ledger), a \in StakeAmounts, u \in RecordedOutputs(ledger),
          t \in Later :
        \E r \in {Deposit(a), Register(PositionRecordOf(u).stake_amount)} :
            \E p \in {JointTx(ledger, w, Stake(a), 0, u, r, t)} : SubmitAt(p, t)

NextJoint ==
    \/ SubmitUnstakeWith
    \/ SubmitClaimWith
    \/ SubmitStakeWith
    \/ NextTransaction

SpecJoint == InitPair /\ [][NextJoint]_vars


-----------------------------------------------------------------------------
\* the spent outputs at the staking validator that are genuine positions of
\* the pool spent as e: the record names the pool's identity and the output
\* carries the position token the record names
GenuinePositions(e) ==
    {p \in PositionsSpentBy(applied.tx, applied.scripts) :
        /\ p.input.resolved.address.payment_credential
                = ScriptCredential(Old(e).staking_validator_hash)
        /\ Old(p).pool_nft_policy = Old(e).pool_nft_policy
        /\ Old(p).pool_nft_name = Old(e).pool_nft_name
        /\ Units(p.input.resolved.value, Old(e).position_nft_policy_hash,
                 Old(p).position_nft_name) >= 1}

\* the stake the positions of E release: a Withdraw its amount (all of the
\* stake when 0), a ForceRefund all of the stake, any other redeemer none
RECURSIVE ReleasedBy(_)
ReleasedBy(E) ==
    IF E = {} THEN 0
    ELSE LET p == CHOOSE x \in E : TRUE IN
         (CASE p.redeemer.tag = "Withdraw" -> EffectiveAmount(p)
            [] p.redeemer.tag = "ForceRefund" -> Old(p).stake_amount
            [] OTHER -> 0)
         + ReleasedBy(E \ {p})

(* C35: every applied Unstake(amt) on a pool comes with genuine positions  *)
(* of that pool, spent under Withdraw or ForceRefund, that release at      *)
(* least amt between them; an input at the staking validator spent under   *)
(* Register, Deposit or Claim, or one without a position token, does not   *)
(* let the Unstake pass.                                                   *)
C35_UnstakeClosesPosition ==
    phase = "accepted" =>
        \A e \in SpentUnder({"Unstake"}) :
            ReleasedBy(GenuinePositions(e)) >= e.redeemer.amount

\* what the pool validator does ask of an Unstake: some input at the staking
\* validator's address the pool record names
C35_SomeStakingInput ==
    phase = "accepted" =>
        \A e \in SpentUnder({"Unstake"}) :
            \E i \in 1..Len(applied.tx.inputs) :
                applied.tx.inputs[i].resolved.address.payment_credential
                    = ScriptCredential(Old(e).staking_validator_hash)

\* the applied transaction spends one output at the staking validator, under
\* a redeemer of kind tag, beside the pool under Unstake(amt)
UnstakedBeside(tag, amt) ==
    /\ phase = "accepted"
    /\ SpentUnder({"Unstake"}) # {}
    /\ \A e \in SpentUnder({"Unstake"}) : e.redeemer.amount = amt
    /\ PositionsSpentBy(applied.tx, applied.scripts) # {}
    /\ \A p \in PositionsSpentBy(applied.tx, applied.scripts) : p.redeemer.tag = tag

\* Unstake(1000) applied beside a position spent under Register: the position
\* stays, with its token and its stake of 1000, and the pool has 1000 stake
\* tokens fewer
C35_UnstakeBesideRegister ==
    /\ UnstakedBeside("Register", 1000)
    /\ \E e \in SpentUnder({"Unstake"}) :
        /\ GenuinePositions(e) # {}
        /\ \A p \in GenuinePositions(e) : PositionContinuations(p, Old(e)) # {}
        /\ \E o \in Continuations(e) :
            StakeUnits(o.value, Old(e)) = StakeUnits(e.input.resolved.value, Old(e)) - 1000
\* Unstake(1000) applied beside an output that holds a record and no position
\* token, spent under Register
C35_UnstakeBesideBareRecord ==
    /\ UnstakedBeside("Register", 1000)
    /\ \E e \in SpentUnder({"Unstake"}) : GenuinePositions(e) = {}
\* Unstake(1000) applied beside a position spent under Deposit
C35_UnstakeBesideDeposit == UnstakedBeside("Deposit", 1000)
\* Unstake(1000) applied beside a position spent under Claim
C35_UnstakeBesideClaim == UnstakedBeside("Claim", 1000)
\* Unstake(1000) applied beside a genuine position spent under Withdraw(1)
C35_UnstakeBesideSmallWithdraw ==
    /\ UnstakedBeside("Withdraw", 1000)
    /\ \E e \in SpentUnder({"Unstake"}) : ReleasedBy(GenuinePositions(e)) = 1
\* Unstake(1000) applied beside a genuine position closed by Withdraw(0)
C35_UnstakeBesideFullWithdraw ==
    /\ UnstakedBeside("Withdraw", 1000)
    /\ \E e \in SpentUnder({"Unstake"}) : ReleasedBy(GenuinePositions(e)) = 1000


-----------------------------------------------------------------------------
\* the reward of the record d under the pool record pr at time now
AccruedReward(d, pr, now) ==
    IF d.stake_amount = 0 THEN 0
    ELSE (d.stake_amount * pr.yield_rate * ((now - d.last_claim) \div 86400000))
            \div (365 * 10000)

\* the rewards of the spent positions of E, added up
RECURSIVE AccruedBy(_, _, _)
AccruedBy(E, pr, now) ==
    IF E = {} THEN 0
    ELSE LET p == CHOOSE x \in E : TRUE IN
         AccruedReward(Old(p), pr, now) + AccruedBy(E \ {p}, pr, now)

\* the reward tokens the applied transaction takes out of the pool spent as e
RewardRemoved(e) ==
    RewardUnits(e.input.resolved.value, Old(e))
    - (IF Continuations(e) = {} THEN 0
       ELSE RewardUnits((CHOOSE o \in Continuations(e) : TRUE).value, Old(e)))

(* C36: when a pool is spent under Claim together with positions spent     *)
(* under Claim or Compound, the reward tokens removed from the pool output *)
(* are at most the sum of the rewards computed for those positions at the  *)
(* transaction's time.                                                     *)
C36_PaidAtMostAccrued ==
    phase = "accepted" =>
        \A e \in SpentUnder({"Claim"}) :
            PositionsUnder({"Claim", "Compound"}) # {}
                => RewardRemoved(e)
                    <= AccruedBy(PositionsUnder({"Claim", "Compound"}), Old(e),
                                 Upper(applied.tx))

\* what the two validators do ask of the pair: a reward above zero for each
\* position, and at least one reward token out of the pool
C36_SomethingAccruedSomethingPaid ==
    phase = "accepted" =>
        \A e \in SpentUnder({"Claim"}) :
            /\ RewardRemoved(e) >= 1
            /\ \A p \in PositionsUnder({"Claim", "Compound"}) :
                AccruedReward(Old(p), Old(e), Upper(applied.tx)) > 0

\* a Claim on the pool beside a Claim on a position that accrued 2 reward
\* tokens took 3 out of the pool
C36_ThreePaidForTwo ==
    /\ phase = "accepted"
    /\ \E e \in SpentUnder({"Claim"}) :
        /\ PositionsUnder({"Claim"}) # {}
        /\ AccruedBy(PositionsUnder({"Claim"}), Old(e), Upper(applied.tx)) = 2
        /\ RewardRemoved(e) = 3
\* the same beside a Compound
C36_CompoundOverpaid ==
    /\ phase = "accepted"
    /\ \E e \in SpentUnder({"Claim"}) :
        /\ PositionsUnder({"Compound"}) # {}
        /\ RewardRemoved(e)
            > AccruedBy(PositionsUnder({"Compound"}), Old(e), Upper(applied.tx))
\* a Claim on the pool that takes out what the position accrued
C36_PaidAsAccrued ==
    /\ phase = "accepted"
    /\ \E e \in SpentUnder({"Claim"}) :
        /\ PositionsUnder({"Claim"}) # {}
        /\ RewardRemoved(e) = AccruedBy(PositionsUnder({"Claim"}), Old(e), Upper(applied.tx))
\* a Claim on the pool beside a Register, for which no reward is computed,
\* took 3 reward tokens out of the pool
C36_ClaimBesideRegister ==
    /\ phase = "accepted"
    /\ PositionsUnder({"Register"}) # {}
    /\ \E e \in SpentUnder({"Claim"}) : RewardRemoved(e) = 3


-----------------------------------------------------------------------------
\* the live positions of the pool whose record is d: the outputs at the
\* pool's staking validator that hold a record naming the pool beside the
\* position token the record names
LivePositions(utxos, d) ==
    {u \in utxos :
        /\ u.resolved.address.payment_credential = ScriptCredential(d.staking_validator_hash)
        /\ IsSomeOutputDatum(u.resolved.datum)
        /\ u.resolved.datum[1].pool_nft_policy = d.pool_nft_policy
        /\ u.resolved.datum[1].pool_nft_name = d.pool_nft_name
        /\ Units(u.resolved.value, d.position_nft_policy_hash,
                 u.resolved.datum[1].position_nft_name) >= 1}

RECURSIVE StakeAmounted(_)
StakeAmounted(S) ==
    IF S = {} THEN 0
    ELSE LET u == CHOOSE x \in S : TRUE IN
         u.resolved.datum[1].stake_amount + StakeAmounted(S \ {u})

(* C37: the total_staked of every pool on the ledger is the sum of         *)
(* stake_amount over the live position records of that pool.               *)
C37_TotalIsSumOfStakes ==
    \A w \in PoolStates(ledger) :
        w.resolved.datum[1].total_staked
            = StakeAmounted(LivePositions(ledger, w.resolved.datum[1]))

\* the pool's total_staked and the sum over its live positions, after the
\* applied transaction, are total and sum
Accounts(total, sum) ==
    /\ phase = "accepted"
    /\ \E w \in PoolStates(ledger) :
        /\ w.resolved.datum[1].total_staked = total
        /\ StakeAmounted(LivePositions(ledger, w.resolved.datum[1])) = sum

\* Stake(2) beside Deposit(2) with a fee of 1: total_staked grows by 2, the
\* position's stake_amount by 1
C37_DepositNetOfFee ==
    /\ Accounts(1002, 1001)
    /\ SpentUnder({"Stake"}) # {}
    /\ PositionsUnder({"Deposit"}) # {}
\* pool Claim beside Compound: stake_amount grows by the net reward,
\* total_staked stays
C37_CompoundNotCounted ==
    /\ \E s \in 1001..1010 : Accounts(1000, s)
    /\ SpentUnder({"Claim"}) # {}
    /\ PositionsUnder({"Compound"}) # {}
\* Unstake(1000) beside Register: total_staked falls to 0, the position keeps 1000
C37_UnstakeWithoutWithdraw ==
    /\ Accounts(0, 1000)
    /\ SpentUnder({"Unstake"}) # {}
\* Unstake(1000) beside Withdraw(0): both fall to 0
C37_WithdrawnInStep ==
    /\ Accounts(0, 0)
    /\ SpentUnder({"Unstake"}) # {}
    /\ PositionsUnder({"Withdraw"}) # {}

\* a position minted beside Stake(2) records a stake_amount of 1000 (reached
\* under SpecPair)
C37_MintedStakeUnmatched ==
    /\ PolicyApplied("MintPosition")
    /\ \E e \in SpentUnder({"Stake"}) : e.redeemer.amount = 2
    /\ \E i \in UNION {ReferenceOutputs(applied.tx, id) : id \in NewPositionIds} :
        applied.tx.outputs[i].datum[1].stake_amount = 1000


-----------------------------------------------------------------------------
(* C38: every pool output on the ledger holds at least total_staked stake  *)
(* tokens: an applied Stake(amt) raises the balance by at least amt, and   *)
(* no applied transition lowers the balance by more than it lowers         *)
(* total_staked.                                                           *)
C38_StakeBacked ==
    /\ \A w \in PoolStates(ledger) :
        StakeUnits(w.resolved.value, w.resolved.datum[1]) >= w.resolved.datum[1].total_staked
    /\ phase = "accepted" =>
        \A e \in Spent :
            \A o \in Continuations(e) :
                IsSomeOutputDatum(o.datum) =>
                    StakeUnits(o.value, Old(e)) - StakeUnits(e.input.resolved.value, Old(e))
                        >= o.datum[1].total_staked - Old(e).total_staked

\* what the Unstake branch keeps: it lowers the balance by at least amt, not
\* by at most amt
C38_UnstakeRemovesAtLeast ==
    phase = "accepted" =>
        \A e \in SpentUnder({"Unstake"}) :
            \A o \in Continuations(e) :
                StakeUnits(e.input.resolved.value, Old(e)) - StakeUnits(o.value, Old(e))
                    >= e.redeemer.amount

\* a Stake(2) was applied that added one stake token to the pool: the pool
\* holds fewer stake tokens than its total_staked
C38_StakeShortOfTokens ==
    /\ phase = "accepted"
    /\ \E e \in SpentUnder({"Stake"}) :
        /\ e.redeemer.amount = 2
        /\ \E o \in Continuations(e) :
            /\ StakeUnits(o.value, Old(e)) = StakeUnits(e.input.resolved.value, Old(e)) + 1
            /\ o.datum[1].total_staked = Old(e).total_staked + 2
    /\ \E w \in PoolStates(ledger) :
        StakeUnits(w.resolved.value, w.resolved.datum[1]) < w.resolved.datum[1].total_staked
\* an Unstake(1) was applied that took two stake tokens out of the pool
C38_UnstakeTakesMore ==
    /\ phase = "accepted"
    /\ \E e \in SpentUnder({"Unstake"}) :
        /\ e.redeemer.amount = 1
        /\ \E o \in Continuations(e) :
            StakeUnits(o.value, Old(e)) = StakeUnits(e.input.resolved.value, Old(e)) - 2

-----------------------------------------------------------------------------
(* C39: whose pool authorises the Position Identity policy.                *)

\* the holder found for the pool named in the redeemer is an output of the
\* pool validator that holds a token of the Pool Identity policy, and its
\* record is the record of that token
GenuinePoolNamed(tx, redeemer) ==
    LET record == Resolved(tx, redeemer.pool_nft_policy, redeemer.pool_nft_name, TRUE) IN
    /\ redeemer.pool_nft_policy = PoolNftPolicyId
    /\ record # << >>
    /\ record[1].resolved.datum[1].pool_nft_policy = redeemer.pool_nft_policy
    /\ record[1].resolved.datum[1].pool_nft_name = redeemer.pool_nft_name

\* C39: position tokens are minted, burned or re-minted only under the
\* authority of a genuine pool: an applied MintPosition, BurnPosition or
\* RemintPosition names a pool identity token issued by the Pool Identity
\* policy and the record resolved with it is that pool's record.
C39_GenuinePoolAuthorises ==
    (phase = "accepted" /\ PolicyRuns # {})
        => GenuinePoolNamed(verdict.tx, PolicyRedeemer)

\* the outputs of the applied transaction at the staking validator that hold
\* a reference token of the Position Identity policy
PlacedAtStaking ==
    {i \in 1..Len(verdict.tx.outputs) :
        /\ verdict.tx.outputs[i].address = ScriptAddress(StakingValidatorHash)
        /\ \E a \in DOMAIN verdict.tx.outputs[i].value : a[1] = PositionPolicyId}
\* the redeemer names a token of a foreign policy, held with a self-made
\* record at a foreign script
SelfMadePoolNamed ==
    /\ PolicyRedeemer.pool_nft_policy = ForeignPolicyId
    /\ \E i \in 1..Len(verdict.tx.reference_inputs) :
        /\ Holds(verdict.tx.reference_inputs[i], ForeignPolicyId, FakePoolName)
        /\ HashAt(verdict.tx.reference_inputs[i]) = ForeignScriptHash
\* a pair was minted under a self-made pool and its reference token placed
\* at the staking validator, authorised by an input at the foreign script
C39_MintedUnderSelfMadePool ==
    /\ PolicyApplied("MintPosition")
    /\ SelfMadePoolNamed
    /\ PlacedAtStaking # {}
    /\ \A i \in 1..Len(verdict.tx.inputs) :
        HashAt(verdict.tx.inputs[i]) \notin {PoolValidatorHash, StakingValidatorHash}
\* the user token of a genuine position was burned under a self-made pool
C39_BurnedUnderSelfMadePool ==
    /\ PolicyApplied("BurnPosition")
    /\ SelfMadePoolNamed
\* a position was replaced under a self-made pool
C39_RemintedUnderSelfMadePool ==
    /\ PolicyApplied("RemintPosition")
    /\ SelfMadePoolNamed
    /\ PlacedAtStaking # {}
\* a pair minted under the pool of the ledger
C39_MintedUnderGenuinePool ==
    /\ PolicyApplied("MintPosition")
    /\ GenuinePoolNamed(verdict.tx, PolicyRedeemer)

-----------------------------------------------------------------------------
(* C40: the stake a Claim pays on, after a Deposit at the same instant.    *)

\* the spent outputs whose record is the record of input u with a smaller
\* stake_amount and every other field the same: u before stake was added
BeforeStakeAdded(u) ==
    {w \in consumed :
        /\ IsStakingInput(w)
        /\ IsSomeOutputDatum(w.resolved.datum)
        /\ IsSomeOutputDatum(u.resolved.datum)
        /\ w.resolved.datum[1].stake_amount < u.resolved.datum[1].stake_amount
        /\ w.resolved.datum[1]
            = [u.resolved.datum[1] EXCEPT !.stake_amount = w.resolved.datum[1].stake_amount]}

\* the pool records a Claim on e reads, each with the outputs that continue e
ClaimContinued(e) ==
    UNION {{<<pr, o>> : o \in PositionContinuations(e, pr)} :
            pr \in PoolRecords(applied.tx, e)}
\* the reward each Claim of the applied transaction pays, beside the reward
\* of the record before stake was added: <<paid, before>>
PaidAndBefore ==
    UNION {{<<x[2].datum[1].total_claimed - Old(e).total_claimed,
              RewardAt(w.resolved.datum[1], x[1], Upper(applied.tx))>> :
                w \in BeforeStakeAdded(e.input), x \in ClaimContinued(e)} :
            e \in PositionsUnder({"Claim"})}

\* C40: rewards accrue only on stake held during the elapsed period: a
\* Claim applied at the instant of the Deposit applied just before it pays
\* the reward a Claim at that instant pays on the record before the Deposit.
C40_AccruesOnHeldStake ==
    [][(phase = "idle" /\ phase' = "accepted" /\ clock' = clock)
            => \A pb \in PaidAndBefore' : pb[1] = pb[2]]_vars

\* what holds: the Claim pays the reward of the record it spends, the
\* record after the Deposit, over the whole time since its last_claim
C40_PaysOnSpentRecord ==
    [][(phase = "idle" /\ phase' = "accepted" /\ clock' = clock)
            => \A e \in PositionsUnder({"Claim"})' :
                \A pr \in PoolRecords(applied.tx, e)' :
                    \A o \in PositionContinuations(e, pr)' :
                        (o.datum[1].total_claimed - Old(e).total_claimed)'
                            = RewardAt(Old(e), pr, Upper(applied.tx))']_vars

\* a Deposit of 1000 (990 net of fee) at two days after last_claim, then a
\* Claim at the same instant: 10 paid, 5 accrued on the stake of 1000 held
C40_PaidOnDepositedStake ==
    /\ phase = "accepted"
    /\ ntx = 2
    /\ clock = StartTime + 2 * MsPerDay
    /\ <<10, 5>> \in PaidAndBefore
    /\ \E e \in PositionsUnder({"Claim"}) :
        /\ e.input.out_ref.id = TxIdOf(1)
        /\ Old(e).stake_amount = 1990
        /\ Old(e).last_claim = StartTime

=============================================================================
